---- MODULE Spec2Model ----
(***************************************************************************)
(* State-machine model of the RSSI homing controllers of the repository.   *)
(*                                                                         *)
(* Conventions                                                             *)
(*   - RSSI values are integers in tenths of a dBm (-48.5 dBm is -485).    *)
(*   - steering / camera angles are integers in hundredths of a degree     *)
(*     (-35 degrees is -3500; the 0.05 and 0.5 degree spiral steps are 5   *)
(*     and 50).                                                            *)
(*   - Python's None is the integer None below; it is outside every input  *)
(*     range.                                                              *)
(*   - a loop iteration is one step, except that a blocking maneuver      *)
(*     (time.sleep between actuator calls) is split at its sleeps, so that *)
(*     an interrupt can arrive inside it; pc names the sleep in progress.  *)
(*   - prog selects the program (source file) that is running.             *)
(***************************************************************************)
EXTENDS Integers, Sequences, FiniteSets, TLC

VARIABLES
    prog,     \* the source file whose controller is running
    pc,       \* position in run(): "calib", "loop", a sleep, "finally", "done", "crashed"
    exc,      \* exception raised in run(): "none", "KeyboardInterrupt", "Exception"
    self,     \* attributes of the NavigationController object
    px,       \* last commands received by the Picarx actuators
    loc,      \* local variables of run() that are live across a sleep
    tick,     \* what the current (or most recent) loop iteration did
    env       \* environment: sensor health, counters of the model's bounds

vars == <<prog, pc, exc, self, px, loc, tick, env>>

None == -9999

(***************************************************************************)
(* Bounds of the model (not program constants).                            *)
(***************************************************************************)
MaxObstacleCount == 3    \* cap on obstacle_counter where the code never resets it
MaxSpiralSteps == 1      \* spiral-search steps of a run that is not observed
MaxFilterUpdates == 2    \* Kalman filter updates of a run that is not observed
MaxVerifyHits == 5       \* cap on verify_hits where elapsed time ends VERIFY
MaxTicks == 7            \* loop iterations of an observed run
MaxRun == 4              \* value at which the observer of close readings saturates
MaxVisionFilterUpdates == 3  \* Kalman filter updates of a run of test24.py
MaxKalmanCalls == 11     \* filter(z) calls with a measurement on one filter object

(***************************************************************************)
(* Inputs.                                                                 *)
(***************************************************************************)
RssiInputs == {-600, -440}
DistInputs == {None, 0, 15, 25, 40}

\* bursts of a run in APPROACH, all below every TARGET_RSSI: levels 1.0 and
\* 2.0 dBm apart, so that a step down is degrading for handle_approach and
\* either degrading or noise for the 1.5 dBm test of wifi_bot2.py and wifi_bot1.py
TrendInputs == {-490, -510, -520, -540, -560}

\* bursts around the thresholds of wifi_bot2.py: APPROACH_THRESHOLD (-55.0)
\* and TARGET_RSSI (-46.0) themselves, one level below the first and one
\* above the second
TargetInputs == {-580, -550, -460, -440}

(***************************************************************************)
(* Program constants.                                                      *)
(***************************************************************************)
FV_TARGET_RSSI == -485
FV_APPROACH_THRESHOLD == -530
FV_VERIFY_TOTAL_CHECKS == 20
FV_VERIFY_REQUIRED_HITS == 4
FV_OBSTACLE_DIST_CM == 25
FV_SPEED_SEARCH == 40
FV_SPEED_APPROACH == 25
FV_SPEED_AVOID == 40

WB3_TARGET_RSSI == -450
WB3_APPROACH_THRESHOLD == -580
WB3_VERIFY_TOTAL_CHECKS == 30
WB3_VERIFY_REQUIRED_HITS == 5
WB3_OBSTACLE_DIST_CM == 25
WB3_SPEED_SEARCH == 40
WB3_SPEED_APPROACH == 25
WB3_SPEED_AVOID == 40

T25_TARGET_RSSI == -460
T25_APPROACH_THRESHOLD == -500
T25_MAX_STEER_ANGLE == 35
T25_OBSTACLE_DIST_CM == 25
T25_SPEED_SEARCH == 40
T25_SPEED_APPROACH == 30
T25_OBSTACLE_CONFIRM_COUNT == 3
T25_VERIFY_REQUIRED_HITS == 4
T25_INITIAL_VALUE == -700      \* RSSIKalmanFilter(initial_value=-70)
T25_LAST_RSSI == -1000         \* self.last_rssi = -100.0

WB2_TARGET_RSSI == -460
WB2_APPROACH_THRESHOLD == -550
WB2_VERIFY_TOTAL_CHECKS == 40
WB2_VERIFY_REQUIRED_HITS == 4
WB2_OBSTACLE_DIST_CM == 25
WB2_SPEED_SEARCH == 40
WB2_SPEED_APPROACH == 30
WB2_OBSTACLE_CONFIRM_COUNT == 3

WB1_TARGET_RSSI == -460
WB1_APPROACH_THRESHOLD == -550
WB1_VERIFY_REQUIRED_HITS == 4
WB1_OBSTACLE_DIST_CM == 25
WB1_SPEED_SEARCH == 40
WB1_SPEED_APPROACH == 30
WB1_OBSTACLE_CONFIRM_COUNT == 3

\* Kalman filter of test25.py in ten-thousandths: P = 1.0, Q = 0.05, R = 2.0
KF_P0 == 10000
KF_Q == 500
KF_R == 20000

TARGET_RSSI(p) ==
    CASE p = "final_version" -> FV_TARGET_RSSI
      [] p = "wifi_bot3" -> WB3_TARGET_RSSI
      [] p = "test25" -> T25_TARGET_RSSI
      [] p = "wifi_bot2" -> WB2_TARGET_RSSI
      [] p = "wifi_bot1" -> WB1_TARGET_RSSI

APPROACH_THRESHOLD(p) ==
    CASE p = "final_version" -> FV_APPROACH_THRESHOLD
      [] p = "wifi_bot3" -> WB3_APPROACH_THRESHOLD
      [] p = "test25" -> T25_APPROACH_THRESHOLD
      [] p = "wifi_bot2" -> WB2_APPROACH_THRESHOLD
      [] p = "wifi_bot1" -> WB1_APPROACH_THRESHOLD

VERIFY_TOTAL_CHECKS(p) ==
    CASE p = "final_version" -> FV_VERIFY_TOTAL_CHECKS
      [] p = "wifi_bot3" -> WB3_VERIFY_TOTAL_CHECKS
      [] p = "wifi_bot2" -> WB2_VERIFY_TOTAL_CHECKS

VERIFY_REQUIRED_HITS(p) ==
    CASE p = "final_version" -> FV_VERIFY_REQUIRED_HITS
      [] p = "wifi_bot3" -> WB3_VERIFY_REQUIRED_HITS
      [] p = "test25" -> T25_VERIFY_REQUIRED_HITS
      [] p = "wifi_bot2" -> WB2_VERIFY_REQUIRED_HITS
      [] p = "wifi_bot1" -> WB1_VERIFY_REQUIRED_HITS

OBSTACLE_DIST_CM(p) ==
    CASE p = "final_version" -> FV_OBSTACLE_DIST_CM
      [] p = "wifi_bot3" -> WB3_OBSTACLE_DIST_CM
      [] p = "test25" -> T25_OBSTACLE_DIST_CM
      [] p = "wifi_bot2" -> WB2_OBSTACLE_DIST_CM
      [] p = "wifi_bot1" -> WB1_OBSTACLE_DIST_CM

\* the debounce threshold: the counter value at which an obstacle is confirmed
OBSTACLE_CONFIRM_COUNT(p) ==
    CASE p = "test25" -> T25_OBSTACLE_CONFIRM_COUNT
      [] p = "wifi_bot2" -> WB2_OBSTACLE_CONFIRM_COUNT
      [] p = "wifi_bot1" -> WB1_OBSTACLE_CONFIRM_COUNT

SPEED_SEARCH(p) ==
    CASE p = "final_version" -> FV_SPEED_SEARCH
      [] p = "wifi_bot3" -> WB3_SPEED_SEARCH
      [] p = "test25" -> T25_SPEED_SEARCH
      [] p = "wifi_bot2" -> WB2_SPEED_SEARCH
      [] p = "wifi_bot1" -> WB1_SPEED_SEARCH

SPEED_APPROACH(p) ==
    CASE p = "final_version" -> FV_SPEED_APPROACH
      [] p = "wifi_bot3" -> WB3_SPEED_APPROACH
      [] p = "test25" -> T25_SPEED_APPROACH
      [] p = "wifi_bot2" -> WB2_SPEED_APPROACH
      [] p = "wifi_bot1" -> WB1_SPEED_APPROACH

SPEED_AVOID(p) ==
    CASE p = "final_version" -> FV_SPEED_AVOID
      [] p = "wifi_bot3" -> WB3_SPEED_AVOID

(***************************************************************************)
(* Picarx actuator calls: px records the last command of each actuator.    *)
(***************************************************************************)
Stop(x) == [x EXCEPT !.motor = "stop", !.speed = 0]
Forward(x, v) == [x EXCEPT !.motor = "forward", !.speed = v]
Backward(x, v) == [x EXCEPT !.motor = "backward", !.speed = v]
Steer(x, a) == [x EXCEPT !.dir = a]
Pan(x, a) == [x EXCEPT !.pan = a]
Tilt(x, a) == [x EXCEPT !.tilt = a]

Deg(d) == 100 * d

\* the result of a step: attributes, actuators, next position, and whether the
\* step called an actuator
R(s, x, next, acts) == [self |-> s, px |-> x, pc |-> next, acts |-> acts]

NoLoc == [curr_rssi |-> None, direction |-> 0]

(***************************************************************************)
(* final_version.py and wifi_bot3.py: NavigationController with the        *)
(* check_obstacle / avoid_obstacle / handle_* methods.                     *)
(***************************************************************************)
MethodProgs == {"final_version", "wifi_bot3"}

\* dist and 0 < dist < OBSTACLE_DIST_CM
IsClose(p, dist) == dist # None /\ dist # 0 /\ 0 < dist /\ dist < OBSTACLE_DIST_CM(p)

\* check_obstacle: the counter after the reading dist
CheckObstacleCounter(p, s, dist) ==
    IF IsClose(p, dist) THEN s.obstacle_counter + 1 ELSE 0

\* return self.obstacle_counter >= 2
CheckObstacleResult(oc) == oc >= 2

\* dist_left = read() or 0
OrZero(d) == IF d = None THEN 0 ELSE d

\* avoid_obstacle up to its first sleep: stop, wheels straight, reverse
AvoidStart(p, s, x) ==
    R(s, Backward(Steer(Stop(x), 0), SPEED_AVOID(p)), "avoid_back", TRUE)

\* avoid_obstacle from its first sleep to its last: turn and drive forward
AvoidTurn(p, s, x, dl, dr) ==
    IF p = "final_version"
    THEN R(s, Forward(Steer(x, Deg(-35)), SPEED_AVOID(p)), "avoid_fwd", TRUE)
    ELSE LET turn_angle == IF OrZero(dl) > OrZero(dr) THEN Deg(35) ELSE Deg(-35)
         IN  R(s, Forward(Steer(Tilt(Pan(x, 0), 0), turn_angle), SPEED_AVOID(p)),
               "avoid_fwd", TRUE)

\* avoid_obstacle after its last sleep: self.state = "SEARCH"; then continue
AvoidEnd(p, s, x) == R([s EXCEPT !.state = "SEARCH"], x, "loop", FALSE)

\* handle_search leaving SEARCH above TARGET_RSSI only
handle_search_target(p, s, x, curr, phase) ==
    IF curr > TARGET_RSSI(p)
    THEN R([s EXCEPT !.state = "APPROACH", !.consecutive_drops = 0], x, "loop", FALSE)
    ELSE IF p = "final_version"
         THEN IF phase = "straight"
              THEN R(s, Forward(Steer(x, 0), SPEED_SEARCH(p)), "loop", TRUE)
              ELSE R(s, Forward(Steer(x, Deg(-35)), SPEED_SEARCH(p)), "loop", TRUE)
         ELSE R([s EXCEPT !.spiral_angle = IF @ < 0 THEN @ + 50 ELSE Deg(-35)],
                Steer(Forward(x, SPEED_SEARCH(p)), s.spiral_angle), "loop", TRUE)

handle_search(p, s, x, curr, phase) ==
    IF curr > APPROACH_THRESHOLD(p)
    THEN R([s EXCEPT !.state = "APPROACH", !.consecutive_drops = 0], x, "loop", FALSE)
    ELSE IF p = "final_version"
         THEN IF phase = "straight"
              THEN R(s, Forward(Steer(x, 0), SPEED_SEARCH(p)), "loop", TRUE)
              ELSE R(s, Forward(Steer(x, Deg(-35)), SPEED_SEARCH(p)), "loop", TRUE)
         ELSE R([s EXCEPT !.spiral_angle = IF @ < 0 THEN @ + 50 ELSE Deg(-35)],
                Steer(Forward(x, SPEED_SEARCH(p)), s.spiral_angle), "loop", TRUE)

\* steering angles of the re-orientation and of the wiggle
REORIENT_ANGLE(p) == IF p = "final_version" THEN Deg(-30) ELSE Deg(30)
WIGGLE_ANGLE(p) == IF p = "final_version" THEN Deg(-20) ELSE Deg(15)

\* handle_approach re-orienting on the second drop already
handle_approach_second(p, s, x, curr, delta) ==
    IF curr >= TARGET_RSSI(p)
    THEN R([s EXCEPT !.state = "VERIFY", !.verify_counter = 0, !.verify_hits = 0],
           Stop(x), "loop", TRUE)
    ELSE IF delta >= 0
         THEN R([s EXCEPT !.consecutive_drops = 0],
                Forward(Steer(x, 0), SPEED_APPROACH(p)), "loop", TRUE)
         ELSE IF s.consecutive_drops + 1 >= 2
              THEN R([s EXCEPT !.consecutive_drops = @ + 1],
                     Steer(Backward(Stop(x), SPEED_APPROACH(p)), REORIENT_ANGLE(p)),
                     "reorient", TRUE)
              ELSE R([s EXCEPT !.consecutive_drops = @ + 1],
                     Forward(Steer(x, WIGGLE_ANGLE(p)), SPEED_APPROACH(p)),
                     "loop", TRUE)

handle_approach(p, s, x, curr, delta) ==
    IF curr >= TARGET_RSSI(p)
    THEN R([s EXCEPT !.state = "VERIFY", !.verify_counter = 0, !.verify_hits = 0],
           Stop(x), "loop", TRUE)
    ELSE IF delta >= 0
         THEN R([s EXCEPT !.consecutive_drops = 0],
                Forward(Steer(x, 0), SPEED_APPROACH(p)), "loop", TRUE)
         ELSE IF s.consecutive_drops + 1 >= 3
              THEN R([s EXCEPT !.consecutive_drops = @ + 1],
                     Steer(Backward(Stop(x), SPEED_APPROACH(p)), REORIENT_ANGLE(p)),
                     "reorient", TRUE)
              ELSE R([s EXCEPT !.consecutive_drops = @ + 1],
                     Forward(Steer(x, WIGGLE_ANGLE(p)), SPEED_APPROACH(p)),
                     "loop", TRUE)

\* handle_approach after the sleep of the re-orientation
ReorientEnd(p, s, x) == R([s EXCEPT !.consecutive_drops = 0], x, "loop", FALSE)

\* a verdict as soon as the required hits could have been collected
VerdictDue_early(p, vc) == vc >= VERIFY_REQUIRED_HITS(p)

\* if self.verify_counter >= VERIFY_TOTAL_CHECKS
VerdictDue(p, vc) == vc >= VERIFY_TOTAL_CHECKS(p)

\* if self.verify_hits >= VERIFY_REQUIRED_HITS
VerdictPass(p, vh) == vh >= VERIFY_REQUIRED_HITS(p)

handle_verify(p, s, x, curr) ==
    LET vc == s.verify_counter + 1
        vh == IF curr >= TARGET_RSSI(p) THEN s.verify_hits + 1 ELSE s.verify_hits
        s1 == [s EXCEPT !.verify_counter = vc, !.verify_hits = vh]
    IN  IF VerdictDue(p, vc)
        THEN IF VerdictPass(p, vh)
             THEN R([s1 EXCEPT !.state = "FINISH"], x, "loop", FALSE)
             ELSE IF p = "final_version"
                  THEN R(s1, Steer(Backward(x, SPEED_APPROACH(p)), Deg(-30)),
                         "false_alarm", TRUE)
                  ELSE R(s1, Backward(x, SPEED_APPROACH(p)), "false_alarm", TRUE)
        ELSE R(s1, x, "loop", FALSE)

\* handle_verify after the sleep of the back-off
FalseAlarmEnd(p, s, x) ==
    IF p = "final_version"
    THEN R([s EXCEPT !.state = "SEARCH"], x, "loop", FALSE)
    ELSE R([s EXCEPT !.state = "SEARCH", !.spiral_angle = Deg(-35)], x, "loop", FALSE)

\* a FINISH branch that drives on instead of stopping
finish_branch_drive(p, s, x) ==
    IF p = "final_version"
    THEN R(s, Forward(x, SPEED_APPROACH(p)), "victory", TRUE)
    ELSE R(s, Forward(x, SPEED_APPROACH(p)), "finally", TRUE)

\* the FINISH branch of run(): stop (and the victory sound, which stops again)
finish_branch(p, s, x) ==
    IF p = "final_version"
    THEN R(s, Stop(x), "victory", TRUE)
    ELSE R(s, Stop(x), "finally", TRUE)

\* if self.state != "FINISH" and self.check_obstacle()
ObstacleGuard(s) == s.state # "FINISH"

\* self.prev_avg_rssi = curr_rssi at the end of the iteration
UpdateHistory(r, curr) ==
    IF r.pc = "loop"
    THEN [r EXCEPT !.self = [@ EXCEPT !.prev_avg_rssi = curr]]
    ELSE r

\* one iteration of the while loop of run(), up to its first sleep
MethodLoopBody(p, s, x, curr, dist, phase) ==
    IF curr = None
    THEN R(s, x, "loop", FALSE)
    ELSE LET s1 == IF ObstacleGuard(s)
                   THEN [s EXCEPT !.obstacle_counter = CheckObstacleCounter(p, s, dist)]
                   ELSE s
             delta == curr - s.prev_avg_rssi
         IN  IF ObstacleGuard(s) /\ CheckObstacleResult(s1.obstacle_counter)
             THEN AvoidStart(p, s1, x)
             ELSE CASE s.state = "SEARCH" ->
                           UpdateHistory(handle_search(p, s1, x, curr, phase), curr)
                    [] s.state = "APPROACH" ->
                           UpdateHistory(handle_approach(p, s1, x, curr, delta), curr)
                    [] s.state = "VERIFY" ->
                           UpdateHistory(handle_verify(p, s1, x, curr), curr)
                    [] s.state = "FINISH" -> finish_branch(p, s1, x)

\* what the iteration did: the state it started in, whether its burst gave an
\* estimate, whether the ultrasonic reading was fed to the debounce and whether
\* the debounce confirmed an obstacle
TickInfo(start, burst, checked, confirmed) ==
    [start |-> start, burst |-> burst, checked |-> checked, confirmed |-> confirmed]

MethodTickInfo(p, s, curr, dist) ==
    TickInfo(s.state, curr # None, curr # None /\ ObstacleGuard(s),
             curr # None /\ ObstacleGuard(s)
                /\ CheckObstacleResult(CheckObstacleCounter(p, s, dist)))

NoTick == TickInfo("none", FALSE, FALSE, FALSE)

MethodInitSelf(p) ==
    IF p = "final_version"
    THEN [state |-> "SEARCH", prev_avg_rssi |-> -1000, consecutive_drops |-> 0,
          obstacle_counter |-> 0, verify_counter |-> 0, verify_hits |-> 0]
    ELSE [state |-> "SEARCH", prev_avg_rssi |-> -1000, spiral_angle |-> Deg(-30),
          consecutive_drops |-> 0, obstacle_counter |-> 0, verify_counter |-> 0,
          verify_hits |-> 0]

\* actuators after __init__: center_head(), px.stop()
MethodInitPx == [motor |-> "stop", speed |-> 0, dir |-> 0, pan |-> 0, tilt |-> 0]

(***************************************************************************)
(* test25.py, wifi_bot2.py and wifi_bot1.py: NavigationController whose    *)
(* run() holds the debounce and the state machine inline, with AVOID as a  *)
(* state of its own.                                                       *)
(***************************************************************************)
InlineProgs == {"test25", "wifi_bot2", "wifi_bot1"}

\* n / d rounded to the nearest integer (d > 0)
RoundDiv(n, d) == (2 * n + d) \div (2 * d)

\* the filter without the correction of the variance: P = p_pred
KalmanFilter_grow(x, P, z) ==
    LET p_pred == P + KF_Q
        den == p_pred + KF_R
    IN  [x |-> x + RoundDiv(p_pred * (z - x), den),
         P |-> p_pred]

\* RSSIKalmanFilter.filter(measurement) for a measurement that is not None:
\* K = p_pred / (p_pred + R), x += K * (z - x), P = (1 - K) * p_pred
KalmanFilter(x, P, z) ==
    LET p_pred == P + KF_Q
        den == p_pred + KF_R
    IN  [x |-> x + RoundDiv(p_pred * (z - x), den),
         P |-> (KF_R * p_pred) \div den]

\* K = p_pred / (p_pred + self.R), in ten-thousandths
KalmanGain(P) == (10000 * (P + KF_Q)) \div (P + KF_Q + KF_R)

\* a filter that runs its prediction step on a missing measurement
filter_predict(f, measurement) ==
    IF measurement = None
    THEN [self |-> [f EXCEPT !.kf_P = @ + KF_Q], ret |-> f.kf_x]
    ELSE LET k == KalmanFilter(f.kf_x, f.kf_P, measurement)
         IN  [self |-> [f EXCEPT !.kf_x = k.x, !.kf_P = k.P], ret |-> k.x]

\* RSSIKalmanFilter.filter(measurement): the filter object after the call and
\* the value returned
filter(f, measurement) ==
    IF measurement = None
    THEN [self |-> f, ret |-> f.kf_x]
    ELSE LET k == KalmanFilter(f.kf_x, f.kf_P, measurement)
         IN  [self |-> [f EXCEPT !.kf_x = k.x, !.kf_P = k.P], ret |-> k.x]

\* the value the iteration compares with: last_rssi or prev_avg_rssi
History(p, s) == IF p = "test25" THEN s.last_rssi ELSE s.prev_avg_rssi

SetHistory(p, s, v) ==
    IF p = "test25" THEN [s EXCEPT !.last_rssi = v] ELSE [s EXCEPT !.prev_avg_rssi = v]

\* self.last_rssi = rssi / self.prev_avg_rssi = curr_rssi at the end of the iteration
Hist(p, r, v) == [r EXCEPT !.self = SetHistory(p, @, v)]

\* the signal value the iteration decides on, and the controller after the
\* filter update: test25.py filters the burst, or reuses last_rssi when the
\* burst failed
InlineSignal(p, s, raw) ==
    IF p = "test25"
    THEN IF raw # None
         THEN LET k == KalmanFilter(s.kf_x, s.kf_P, raw)
              IN  [rssi |-> k.x, self |-> [s EXCEPT !.kf_x = k.x, !.kf_P = k.P]]
         ELSE [rssi |-> s.last_rssi, self |-> s]
    ELSE [rssi |-> raw, self |-> s]

\* if rssi_delta < -1.5: drops += 1 / elif rssi_delta > 0.5: drops = 0
TrendDrops(drops, delta) ==
    IF delta < -15 THEN drops + 1
    ELSE IF delta > 5 THEN 0 ELSE drops

\* if self.obstacle_counter >= OBSTACLE_CONFIRM_COUNT
Confirmed_early(p, c) == c >= OBSTACLE_CONFIRM_COUNT(p) - 1

Confirmed(p, c) == c >= OBSTACLE_CONFIRM_COUNT(p)

\* the debounce block of run()
InlineDebounce(p, s, dist) ==
    IF s.state \notin {"FINISH", "VERIFY"}
    THEN LET c == IF IsClose(p, dist) THEN s.obstacle_counter + 1 ELSE 0
         IN  IF Confirmed(p, c)
             THEN [s EXCEPT !.state = "AVOID", !.obstacle_counter = 0]
             ELSE [s EXCEPT !.obstacle_counter = c]
    ELSE s

\* the AVOID branch up to the first sleep of scan_surroundings
InlineAvoidStart(p, s, x) == R(s, Pan(Stop(x), Deg(-45)), "avoid_scan", TRUE)

\* return -1 if left > right else 1
ScanDirection(left, right) == IF OrZero(left) > OrZero(right) THEN -1 ELSE 1

\* the rest of scan_surroundings, then reverse
InlineAvoidScan(p, s, x) ==
    LET x1 == Tilt(Pan(x, 0), 0)
    IN  IF p = "test25"
        THEN R(s, Backward(Steer(x1, 0), SPEED_SEARCH(p)), "avoid_back", TRUE)
        ELSE R(s, Backward(x1, SPEED_SEARCH(p)), "avoid_back", TRUE)

\* turn towards the free side and drive forward
InlineAvoidTurn(p, s, x, direction) ==
    R(s, Forward(Steer(x, direction * Deg(35)), SPEED_SEARCH(p)), "avoid_fwd", TRUE)

\* an AVOID branch that ends without leaving the AVOID state
InlineAvoidEnd_stay(p, s, x, rssi) ==
    Hist(p, R(s, x, "loop", FALSE), rssi)

\* the end of the AVOID branch and of the iteration
InlineAvoidEnd(p, s, x, rssi) ==
    Hist(p, R([s EXCEPT !.state = "SEARCH"], x, "loop", FALSE), rssi)

\* if rssi > APPROACH_THRESHOLD, with the slip of comparing with the target
AboveApproach_target(p, rssi) == rssi > TARGET_RSSI(p)

AboveApproach(p, rssi) == rssi > APPROACH_THRESHOLD(p)

\* int(self.spiral_angle): truncation towards zero, in hundredths of a degree
TruncDeg(a) == IF a >= 0 THEN (a \div 100) * 100 ELSE -(((-a) \div 100) * 100)

\* the step of the search spiral: 0.05 degrees in test25.py, 1 degree otherwise
SpiralStep(p) == IF p = "test25" THEN 5 ELSE 100

\* the search step with the spiral reset one iteration late
InlineSearch_late(p, s, x, rssi) ==
    IF AboveApproach(p, rssi)
    THEN CASE p = "test25" ->
                  R([s EXCEPT !.state = "APPROACH"], Steer(x, 0), "loop", TRUE)
           [] p = "wifi_bot2" ->
                  Hist(p, R([s EXCEPT !.state = "APPROACH"], x, "loop", FALSE), rssi)
           [] p = "wifi_bot1" ->
                  Hist(p, R([s EXCEPT !.state = "APPROACH", !.consecutive_drops = 0],
                            x, "loop", FALSE), rssi)
    ELSE Hist(p, R([s EXCEPT !.spiral_angle =
                               IF @ <= 0 THEN @ + SpiralStep(p) ELSE Deg(-35)],
                   Steer(Forward(x, SPEED_SEARCH(p)), TruncDeg(s.spiral_angle)),
                   "loop", TRUE), rssi)

InlineSearch(p, s, x, rssi) ==
    IF AboveApproach(p, rssi)
    THEN CASE p = "test25" ->
                  R([s EXCEPT !.state = "APPROACH"], Steer(x, 0), "loop", TRUE)
           [] p = "wifi_bot2" ->
                  Hist(p, R([s EXCEPT !.state = "APPROACH"], x, "loop", FALSE), rssi)
           [] p = "wifi_bot1" ->
                  Hist(p, R([s EXCEPT !.state = "APPROACH", !.consecutive_drops = 0],
                            x, "loop", FALSE), rssi)
    ELSE Hist(p, R([s EXCEPT !.spiral_angle =
                               IF @ < 0 THEN @ + SpiralStep(p) ELSE Deg(-35)],
                   Steer(Forward(x, SPEED_SEARCH(p)), TruncDeg(s.spiral_angle)),
                   "loop", TRUE), rssi)

\* the re-orientation maneuver up to its first sleep
InlineReorient(p, s, x) ==
    IF p = "wifi_bot2"
    THEN R(s, Backward(Steer(Stop(x), Deg(35)), SPEED_APPROACH(p)), "reorient", TRUE)
    ELSE R(s, Backward(Steer(Stop(x), Deg(30)), SPEED_APPROACH(p)), "reorient", TRUE)

\* the re-orientation maneuver after its first sleep, then continue
InlineReorientEnd(p, s, x, rssi) ==
    IF p = "wifi_bot2"
    THEN Hist(p, R([s EXCEPT !.consecutive_drops = 0],
                   Forward(x, SPEED_APPROACH(p)), "loop", TRUE), rssi)
    ELSE Hist(p, R([s EXCEPT !.consecutive_drops = 0],
                   Forward(Steer(x, Deg(-20)), SPEED_APPROACH(p)), "loop", TRUE), rssi)

InlineApproach(p, s, x, rssi, delta) ==
    CASE p = "test25" ->
            IF rssi >= TARGET_RSSI(p)
            THEN R([s EXCEPT !.state = "VERIFY", !.verify_hits = 0],
                   Steer(Stop(x), 0), "loop", TRUE)
            ELSE IF delta >= 0
                 THEN Hist(p, R(s, Forward(Steer(x, 0), SPEED_APPROACH(p)),
                                "loop", TRUE), rssi)
                 ELSE Hist(p, R(s, Forward(Steer(x, Deg(20)), SPEED_APPROACH(p)),
                                "loop", TRUE), rssi)
      [] p = "wifi_bot2" ->
            LET s1 == [s EXCEPT !.consecutive_drops = TrendDrops(@, delta)]
            IN  IF s1.consecutive_drops >= 3
                THEN InlineReorient(p, s1, x)
                ELSE IF rssi >= TARGET_RSSI(p)
                     THEN R([s1 EXCEPT !.state = "VERIFY", !.verify_counter = 0,
                                       !.verify_hits = 0],
                            Steer(Stop(x), 0), "loop", TRUE)
                     ELSE Hist(p, R(s1, Forward(Steer(x, 0), SPEED_APPROACH(p)),
                                    "loop", TRUE), rssi)
      [] p = "wifi_bot1" ->
            IF rssi >= TARGET_RSSI(p)
            THEN R([s EXCEPT !.state = "VERIFY", !.verify_hits = 0],
                   Stop(x), "loop", TRUE)
            ELSE Hist(p, R(s, Forward(Steer(x, 0), SPEED_APPROACH(p)),
                           "loop", TRUE), rssi)

\* a VERIFY branch that creeps forward between its checks
InlineVerify_creep(p, s, x, rssi, timeout) ==
    LET vh == IF rssi >= TARGET_RSSI(p) THEN s.verify_hits + 1 ELSE s.verify_hits
        s1 == IF p = "wifi_bot2"
              THEN [s EXCEPT !.verify_counter = @ + 1, !.verify_hits = vh]
              ELSE [s EXCEPT !.verify_hits = vh]
        due == IF p = "wifi_bot2" THEN VerdictDue(p, s1.verify_counter) ELSE timeout
    IN  IF due
        THEN IF VerdictPass(p, vh)
             THEN Hist(p, R([s1 EXCEPT !.state = "FINISH"], x, "loop", FALSE), rssi)
             ELSE R(s1, Backward(x, SPEED_APPROACH(p)), "false_alarm", TRUE)
        ELSE Hist(p, R(s1, Forward(x, SPEED_APPROACH(p)), "loop", TRUE), rssi)

\* the VERIFY branch: wifi_bot2.py counts its checks, test25.py and
\* wifi_bot1.py wait until elapsed > VERIFY_DURATION (timeout)
InlineVerify(p, s, x, rssi, timeout) ==
    LET vh == IF rssi >= TARGET_RSSI(p) THEN s.verify_hits + 1 ELSE s.verify_hits
        s1 == IF p = "wifi_bot2"
              THEN [s EXCEPT !.verify_counter = @ + 1, !.verify_hits = vh]
              ELSE [s EXCEPT !.verify_hits = vh]
        due == IF p = "wifi_bot2" THEN VerdictDue(p, s1.verify_counter) ELSE timeout
    IN  IF due
        THEN IF VerdictPass(p, vh)
             THEN Hist(p, R([s1 EXCEPT !.state = "FINISH"], x, "loop", FALSE), rssi)
             ELSE R(s1, Backward(x, SPEED_APPROACH(p)), "false_alarm", TRUE)
        ELSE Hist(p, R(s1, x, "loop", FALSE), rssi)

\* the VERIFY branch after the sleep of the back-off, and the end of the iteration
InlineFalseAlarmEnd(p, s, x, rssi) ==
    Hist(p, R([s EXCEPT !.state = "APPROACH"], x, "loop", FALSE), rssi)

\* wifi_bot1.py runs its trend block, which may re-orient and continue,
\* before the debounce
TrendFirst(p, s) == p = "wifi_bot1" /\ s.state = "APPROACH"

\* wifi_bot2.py and wifi_bot1.py: if curr_rssi is None: continue
SkipsIteration(p, raw) == p # "test25" /\ raw = None

\* one iteration of the while loop of run(), up to its first sleep
InlineLoopBody(p, s, x, raw, dist, timeout) ==
    IF SkipsIteration(p, raw)
    THEN R(s, x, "loop", FALSE)
    ELSE LET sig == InlineSignal(p, s, raw)
             rssi == sig.rssi
             delta == rssi - History(p, s)
             s1 == IF TrendFirst(p, s)
                   THEN [sig.self EXCEPT !.consecutive_drops = TrendDrops(@, delta)]
                   ELSE sig.self
         IN  IF TrendFirst(p, s) /\ s1.consecutive_drops >= 3
             THEN InlineReorient(p, s1, x)
             ELSE LET s2 == InlineDebounce(p, s1, dist)
                  IN  CASE s2.state = "AVOID" -> InlineAvoidStart(p, s2, x)
                        [] s2.state = "SEARCH" -> InlineSearch(p, s2, x, rssi)
                        [] s2.state = "APPROACH" -> InlineApproach(p, s2, x, rssi, delta)
                        [] s2.state = "VERIFY" -> InlineVerify(p, s2, x, rssi, timeout)
                        [] s2.state = "FINISH" -> R(s2, Stop(x), "finally", TRUE)

InlineTickInfo(p, s, r, raw) ==
    TickInfo(s.state, raw # None,
             /\ ~SkipsIteration(p, raw)
             /\ r.pc # "reorient" \/ ~TrendFirst(p, s)
             /\ s.state \notin {"FINISH", "VERIFY"},
             r.self.state = "AVOID")

InlineInitSelf(p) ==
    CASE p = "test25" ->
            [state |-> "SEARCH", last_rssi |-> T25_LAST_RSSI,
             spiral_angle |-> Deg(-T25_MAX_STEER_ANGLE), obstacle_counter |-> 0,
             verify_hits |-> 0, kf_x |-> T25_INITIAL_VALUE, kf_P |-> KF_P0]
      [] p = "wifi_bot2" ->
            [state |-> "SEARCH", prev_avg_rssi |-> -1000, spiral_angle |-> Deg(-35),
             consecutive_drops |-> 0, obstacle_counter |-> 0, verify_counter |-> 0,
             verify_hits |-> 0]
      [] p = "wifi_bot1" ->
            [state |-> "SEARCH", prev_avg_rssi |-> -1000, spiral_angle |-> Deg(-35),
             consecutive_drops |-> 0, obstacle_counter |-> 0, verify_hits |-> 0]

\* actuators after __init__: center_head() only, no motor command yet
InlineInitPx == [motor |-> "none", speed |-> 0, dir |-> 0, pan |-> 0, tilt |-> 0]

(***************************************************************************)
(* Environment and observers.  env holds the health of the Wi-Fi sensor,   *)
(* the counters the bounds of the model need, and observers of the inputs  *)
(* a run has received (they are written by the iterations of an observed   *)
(* run and read by no action).                                             *)
(***************************************************************************)
InitEnv ==
    [wifi_ok |-> TRUE,        \* FALSE: every read of /proc/net/wireless fails
     spiral_steps |-> 0,      \* spiral-search steps taken so far
     filter_updates |-> 0,    \* Kalman filter updates so far
     ticks |-> 0,             \* iterations of an observed run
     beat |-> 0,              \* parity of the iteration count of a timed run
     all_valid |-> TRUE,      \* every burst of the run gave an estimate
     fed_run |-> 0,           \* consecutive close readings fed to the debounce
     any_run |-> 0,           \* consecutive close readings, up to the third
     dbn_run |-> 0,           \* the same among the readings fed to the debounce
     scen4 |-> 0,             \* ticks of the range scenario matched so far
     scen4m |-> 0,            \* the same, all of them started in SEARCH or APPROACH
     scen5 |-> 0,             \* samples of the signal scenario matched so far
     raised_at |-> "none",    \* position of run() at which exc was raised
     used |-> None,           \* signal value the last iteration of a traced run used
     vsteer |-> None,         \* steering command of the vision block of the last iteration
     reached |-> FALSE,       \* an iteration of test24.py has had a signal >= TARGET_RSSI
     range |-> None,          \* ultrasonic reading of the last iteration of a traced or trend run
     deg_run |-> 0,           \* consecutive degrading APPROACH iterations of a trend run
     steady |-> FALSE,        \* from now on every burst is >= TARGET_RSSI and no obstacle is confirmed
     origin |-> "none",       \* state of the controller when the steady run began
     since |-> 0]             \* iterations of a steady run that began in SEARCH

\* the Wi-Fi interface disappears for good: every later read fails
WifiLost ==
    /\ pc = "loop"
    /\ env.wifi_ok
    /\ env' = [env EXCEPT !.wifi_ok = FALSE]
    /\ UNCHANGED <<prog, pc, exc, self, px, loc, tick>>

BurstInputs(rssis) == IF env.wifi_ok THEN rssis \cup {None} ELSE {None}

\* the step takes a spiral-search step
Spirals(s, r) == "spiral_angle" \in DOMAIN s /\ r.self.spiral_angle # s.spiral_angle

\* consecutive close readings fed to the debounce, this reading included
RunAfter(run, checked, close) ==
    IF checked
    THEN (IF close THEN (IF run < MaxRun THEN run + 1 ELSE run) ELSE 0)
    ELSE run

\* the same, counted up to the third: the reading after a third starts again
Run3After(run, counts, close) ==
    IF counts
    THEN (IF close THEN (IF run = 3 THEN 1 ELSE run + 1) ELSE 0)
    ELSE run

\* the range scenario 40, 40, 15, 15, 15 fed from a tick that starts in
\* SEARCH or APPROACH with obstacle_counter = 0, every burst valid
Script4 == <<40, 40, 15, 15, 15>>

\* moving: only ticks that start in SEARCH or APPROACH continue the scenario
Scen4After(k, s, raw, dist, moving) ==
    IF raw = None \/ (moving /\ s.state \notin {"SEARCH", "APPROACH"}) THEN 0
    ELSE IF k \in 1..4 /\ dist = Script4[k + 1] THEN k + 1
    ELSE IF k = 2 /\ dist = 40 THEN 2
    ELSE IF s.state \in {"SEARCH", "APPROACH"} /\ s.obstacle_counter = 0
            /\ dist = Script4[1] THEN 1
    ELSE 0

\* the signal scenario -70, -68, -60, -52, -44, -44, -44, -44 fed from a tick
\* that starts in SEARCH, with no close range reading
Script5 == <<-700, -680, -600, -520, -440, -440, -440, -440>>

ScriptRssi == {Script5[i] : i \in 1..8}

FarInputs == {None, 40}

Scen5After(p, k, s, raw, dist) ==
    IF IsClose(p, dist) THEN 0
    ELSE IF k \in 1..7 /\ raw = Script5[k + 1] THEN k + 1
    ELSE IF s.state = "SEARCH" /\ raw = Script5[1] THEN 1
    ELSE 0

\* the environment after an iteration.  mode "free": nothing is observed;
\* "observed": the iteration is counted and the observers follow the inputs;
\* "timed": the parity of the iteration count is kept
\* the signal of the iteration is weaker than the value it is compared with:
\* delta < 0 in handle_approach, rssi_delta < -1.5 in wifi_bot2.py and wifi_bot1.py
Degrading(p, s, raw) ==
    IF p \in MethodProgs
    THEN raw - s.prev_avg_rssi < 0
    ELSE InlineSignal(p, s, raw).rssi - History(p, s) < -15

\* the number of consecutive iterations, this one included, that started and
\* ended in APPROACH with a degrading signal; the count starts again after the
\* third.  An iteration whose burst failed is no iteration of the count.
DegRunAfter(n, p, s, r, raw) ==
    IF raw = None THEN (IF n >= 3 THEN 0 ELSE n)
    ELSE IF s.state # "APPROACH" \/ r.self.state # "APPROACH"
              \/ r.pc \in {"avoid_back", "avoid_scan"} THEN 0
    ELSE IF Degrading(p, s, raw) THEN (IF n >= 3 THEN 1 ELSE n + 1)
    ELSE 0

EnvAfter(p, s, r, mode, info, raw, dist) ==
    IF mode = "observed"
    THEN [env EXCEPT
            !.ticks = @ + 1,
            !.all_valid = @ /\ raw # None,
            !.fed_run = RunAfter(@, info.checked, IsClose(p, dist)),
            !.any_run = Run3After(@, TRUE, IsClose(p, dist)),
            !.dbn_run = Run3After(@, info.checked, IsClose(p, dist)),
            !.scen4 = Scen4After(@, s, raw, dist, FALSE),
            !.scen4m = Scen4After(@, s, raw, dist, TRUE),
            !.scen5 = Scen5After(p, @, s, raw, dist)]
    ELSE [env EXCEPT
            !.spiral_steps = IF Spirals(s, r) THEN @ + 1 ELSE @,
            !.filter_updates = IF p = "test25" /\ raw # None THEN @ + 1 ELSE @,
            !.beat = IF mode = "timed" THEN 1 - @ ELSE @,
            !.used = IF mode \in {"traced", "target"} /\ p \in InlineProgs
                     THEN InlineSignal(p, s, raw).rssi
                     ELSE IF mode = "count" THEN raw ELSE @,
            !.range = IF mode \in {"traced", "trend"} THEN dist ELSE @,
            !.deg_run = IF mode = "trend" THEN DegRunAfter(@, p, s, r, raw) ELSE @]

\* the step stays within the bounds of the model
WithinBounds(s, r, e) ==
    /\ r.self.obstacle_counter <= MaxObstacleCount
    /\ "verify_counter" \in DOMAIN s \/ r.self.verify_hits <= MaxVerifyHits
    /\ e.spiral_steps <= MaxSpiralSteps
    /\ e.filter_updates <= MaxFilterUpdates
    /\ e.ticks <= MaxTicks

\* the step runs to its end
Take(r) ==
    /\ self' = r.self
    /\ px' = r.px
    /\ pc' = r.pc
    /\ UNCHANGED <<prog, exc>>

\* an exception is raised at the current position and run() goes to next
Raise(e, next) ==
    /\ exc' = e
    /\ pc' = next
    /\ env' = [env EXCEPT !.raised_at = pc]

(***************************************************************************)
(* run() of final_version.py and wifi_bot3.py.                             *)
(***************************************************************************)
\* start_val = get_averaged_rssi(); if start_val: self.prev_avg_rssi = start_val
MethodCalibrate ==
    /\ prog \in MethodProgs
    /\ pc = "calib"
    /\ \E start_val \in BurstInputs(RssiInputs) :
          self' = IF start_val # None /\ start_val # 0
                  THEN [self EXCEPT !.prev_avg_rssi = start_val]
                  ELSE self
    /\ pc' = "loop"
    /\ UNCHANGED <<prog, exc, px, loc, tick, env>>

Phases(p, s) ==
    IF p = "final_version" /\ s.state = "SEARCH" THEN {"straight", "turn"}
    ELSE {"straight"}

\* one iteration of the loop up to its first sleep, on any sensor input
MethodIteration(mode, rssis, dists) ==
    \E curr \in BurstInputs(rssis), dist \in dists,
       phase \in Phases(prog, self) :
       LET r == MethodLoopBody(prog, self, px, curr, dist, phase)
           info == MethodTickInfo(prog, self, curr, dist)
           e == EnvAfter(prog, self, r, mode, info, curr, dist)
       IN  /\ WithinBounds(self, r, e)
           /\ Take(r)
           /\ loc' = IF r.pc \in {"reorient", "false_alarm"}
                     THEN [NoLoc EXCEPT !.curr_rssi = curr] ELSE NoLoc
           /\ tick' = info
           /\ env' = e

MethodTick ==
    /\ prog \in MethodProgs
    /\ pc = "loop"
    /\ MethodIteration("free", RssiInputs, DistInputs)

\* the same iteration in an observed run of at most MaxTicks iterations
MethodTickObserved ==
    /\ prog \in MethodProgs
    /\ pc = "loop"
    /\ MethodIteration("observed", RssiInputs, DistInputs)

\* the same iteration in a timed run
MethodTickTimed ==
    /\ prog \in MethodProgs
    /\ pc = "loop"
    /\ MethodIteration("timed", RssiInputs, DistInputs)

\* the same iteration in a traced run
MethodTickTraced ==
    /\ prog \in MethodProgs
    /\ pc = "loop"
    /\ MethodIteration("traced", RssiInputs, DistInputs)

\* the same iteration in a run that records the burst it was given, with a
\* far or a close range reading
MethodTickCount ==
    /\ prog \in MethodProgs
    /\ pc = "loop"
    /\ MethodIteration("count", RssiInputs, {15, 40})

\* bursts of a steady run: exactly TARGET_RSSI
SteadyInputs(p) == {TARGET_RSSI(p)}

\* the same iteration before the steady run begins, with far range readings
MethodTickBefore ==
    /\ prog \in MethodProgs
    /\ pc = "loop"
    /\ ~env.steady
    /\ MethodIteration("free", RssiInputs, {40})

\* between two iterations the environment turns steady for good
SteadyBegins ==
    /\ prog \in MethodProgs
    /\ pc = "loop"
    /\ ~env.steady
    /\ env' = [env EXCEPT !.steady = TRUE, !.origin = self.state]
    /\ UNCHANGED <<prog, pc, exc, self, px, loc, tick>>

\* the same iteration in the steady run: the burst gives an estimate that is
\* >= TARGET_RSSI, and the range reading does not confirm an obstacle
MethodTickSteady ==
    /\ prog \in MethodProgs
    /\ pc = "loop"
    /\ env.steady
    /\ \E curr \in SteadyInputs(prog), dist \in {15, 40},
          phase \in Phases(prog, self) :
          LET r == MethodLoopBody(prog, self, px, curr, dist, phase)
              info == MethodTickInfo(prog, self, curr, dist)
          IN  /\ ~info.confirmed
              /\ Take(r)
              /\ loc' = IF r.pc \in {"reorient", "false_alarm"}
                        THEN [NoLoc EXCEPT !.curr_rssi = curr] ELSE NoLoc
              /\ tick' = info
              /\ env' = [env EXCEPT !.since = IF env.origin = "SEARCH" THEN @ + 1 ELSE @]

\* the same iteration on the signal levels of a trend run
MethodTickTrend ==
    /\ prog \in MethodProgs
    /\ pc = "loop"
    /\ MethodIteration("trend", TrendInputs, DistInputs)

\* the rest of a maneuver after one of its sleeps
MethodManeuver ==
    /\ prog \in MethodProgs
    /\ \/ /\ pc = "avoid_back"
          /\ \E dl \in IF prog = "wifi_bot3" THEN {None, 15, 40} ELSE {None} :
             \E dr \in IF prog = "wifi_bot3" THEN {None, 15, 40} ELSE {None} :
                Take(AvoidTurn(prog, self, px, dl, dr))
          /\ loc' = loc
       \/ /\ pc = "avoid_fwd"
          /\ Take(AvoidEnd(prog, self, px))
          /\ loc' = loc
       \/ /\ pc = "reorient"
          /\ Take(UpdateHistory(ReorientEnd(prog, self, px), loc.curr_rssi))
          /\ loc' = NoLoc
       \/ /\ pc = "false_alarm"
          /\ Take(UpdateHistory(FalseAlarmEnd(prog, self, px), loc.curr_rssi))
          /\ loc' = NoLoc
    /\ UNCHANGED <<tick, env>>

\* time.sleep(5) after the victory sound, then break
MethodVictory ==
    /\ prog = "final_version"
    /\ pc = "victory"
    /\ pc' = "finally"
    /\ UNCHANGED <<prog, exc, self, px, loc, tick, env>>

MethodLoopPcs == {"loop", "avoid_back", "avoid_fwd", "reorient", "false_alarm", "victory"}

\* Ctrl+C while the loop runs: except KeyboardInterrupt, then finally
MethodInterrupt ==
    /\ prog \in MethodProgs
    /\ pc \in MethodLoopPcs
    /\ Raise("KeyboardInterrupt", "finally")
    /\ UNCHANGED <<prog, self, px, loc, tick>>

\* Ctrl+C during the calibration burst, before the try statement
MethodCalibInterrupt ==
    /\ prog \in MethodProgs
    /\ pc = "calib"
    /\ Raise("KeyboardInterrupt", "crashed")
    /\ UNCHANGED <<prog, self, px, loc, tick>>

\* the first actuator call of an iteration raises: the attributes assigned
\* before that call are kept, and run() has no handler for the exception
MethodActuatorFault ==
    /\ prog \in MethodProgs
    /\ pc = "loop"
    /\ \E curr \in BurstInputs(RssiInputs), dist \in DistInputs,
          phase \in Phases(prog, self) :
          LET r == MethodLoopBody(prog, self, px, curr, dist, phase)
              info == MethodTickInfo(prog, self, curr, dist)
          IN  /\ r.acts
              /\ self' = [f \in DOMAIN self |->
                             IF f \in {"prev_avg_rssi", "spiral_angle"}
                             THEN self[f] ELSE r.self[f]]
              /\ tick' = info
    /\ Raise("Exception", "finally")
    /\ UNCHANGED <<prog, px, loc>>

\* a finally clause that forgets the stop
MethodFinally_nostop ==
    /\ prog \in MethodProgs
    /\ pc = "finally"
    /\ pc' = IF exc = "Exception" THEN "crashed" ELSE "done"
    /\ UNCHANGED <<prog, exc, self, px, loc, tick, env>>

\* finally: self.px.stop(); an unhandled exception then leaves run()
MethodFinally ==
    /\ prog \in MethodProgs
    /\ pc = "finally"
    /\ px' = Stop(px)
    /\ pc' = IF exc = "Exception" THEN "crashed" ELSE "done"
    /\ UNCHANGED <<prog, exc, self, loc, tick, env>>

\* finally: self.px.stop() raises as the actuator call of the tick did
MethodFinallyFault ==
    /\ prog \in MethodProgs
    /\ pc = "finally"
    /\ exc = "Exception"
    /\ pc' = "crashed"
    /\ UNCHANGED <<prog, exc, self, px, loc, tick, env>>

InitMethod(p) ==
    /\ prog = p
    /\ pc = "calib"
    /\ exc = "none"
    /\ self = MethodInitSelf(p)
    /\ px = MethodInitPx
    /\ loc = NoLoc
    /\ tick = NoTick
    /\ env = InitEnv

NextMethod ==
    \/ MethodCalibrate
    \/ MethodTick
    \/ MethodManeuver
    \/ MethodVictory
    \/ MethodFinally

\* final_version.py and wifi_bot3.py, runs without interrupts or faults
SpecMethod ==
    (InitMethod("final_version") \/ InitMethod("wifi_bot3")) /\ [][NextMethod]_vars

NextSteady ==
    \/ MethodCalibrate
    \/ MethodTickBefore
    \/ SteadyBegins
    \/ MethodTickSteady
    \/ MethodManeuver
    \/ MethodVictory
    \/ MethodFinally

\* final_version.py and wifi_bot3.py in an environment that turns steady at
\* some iteration; the loop keeps iterating and every sleep returns
SpecSteady ==
    /\ InitMethod("final_version") \/ InitMethod("wifi_bot3")
    /\ [][NextSteady]_vars
    /\ WF_vars(MethodTickSteady)
    /\ WF_vars(MethodManeuver)
    /\ WF_vars(MethodVictory)
    /\ WF_vars(MethodFinally)

\* run() has returned from FINISH with the motors stopped
TerminatedAtTarget ==
    /\ pc = "done"
    /\ self.state = "FINISH"
    /\ px.motor = "stop"
    /\ px.speed = 0

\* a steady run that began in SEARCH is in FINISH after 2 + VERIFY_TOTAL_CHECKS
\* iterations and has left the loop after one more
SteadyBound ==
    (env.steady /\ env.origin = "SEARCH") =>
        /\ env.since <= 3 + VERIFY_TOTAL_CHECKS(prog)
        /\ (env.since >= 2 + VERIFY_TOTAL_CHECKS(prog)) => (self.state = "FINISH")
        /\ (env.since = 3 + VERIFY_TOTAL_CHECKS(prog)) =>
              (pc \in {"victory", "finally", "done"})

\* C35: in final_version.py and wifi_bot3.py, once every burst gives a signal
\* >= TARGET_RSSI and no obstacle is confirmed, run() eventually returns from
\* FINISH with the motors stopped; from SEARCH the controller is in FINISH
\* after at most 2 + VERIFY_TOTAL_CHECKS iterations and leaves the loop on
\* the next one.
C35_SteadyReachesFinish ==
    /\ []SteadyBound
    /\ env.steady ~> TerminatedAtTarget

C35_Witness ==
    /\ TerminatedAtTarget
    /\ env.origin = "SEARCH"
    /\ env.since = 3 + VERIFY_TOTAL_CHECKS(prog)
    /\ self.verify_hits = VERIFY_TOTAL_CHECKS(prog)

(***************************************************************************)
(* run() of test25.py, wifi_bot2.py and wifi_bot1.py.                      *)
(***************************************************************************)
\* start_val = burst; if start_val: self.kf.x = start_val (test25.py),
\* self.prev_avg_rssi = start_val (wifi_bot2.py, wifi_bot1.py)
InlineCalibrate ==
    /\ prog \in InlineProgs
    /\ pc = "calib"
    /\ \E start_val \in BurstInputs(RssiInputs) :
          self' = IF start_val # None /\ start_val # 0
                  THEN IF prog = "test25"
                       THEN [self EXCEPT !.kf_x = start_val]
                       ELSE [self EXCEPT !.prev_avg_rssi = start_val]
                  ELSE self
    /\ pc' = "loop"
    /\ UNCHANGED <<prog, exc, px, loc, tick, env>>

\* elapsed > VERIFY_DURATION is read from the clock in VERIFY only
Timeouts(p, s) ==
    IF p # "wifi_bot2" /\ s.state = "VERIFY" THEN BOOLEAN ELSE {FALSE}

\* one iteration of the loop up to its first sleep, on sensor inputs drawn
\* from rssis and dists
InlineIteration(mode, rssis, dists) ==
    \E raw \in BurstInputs(rssis), dist \in dists, timeout \in Timeouts(prog, self) :
       LET r == InlineLoopBody(prog, self, px, raw, dist, timeout)
           info == InlineTickInfo(prog, self, r, raw)
           e == EnvAfter(prog, self, r, mode, info, raw, dist)
       IN  /\ WithinBounds(self, r, e)
           /\ Take(r)
           /\ loc' = IF r.pc \in {"avoid_scan", "reorient", "false_alarm"}
                     THEN [NoLoc EXCEPT !.curr_rssi = InlineSignal(prog, self, raw).rssi]
                     ELSE NoLoc
           /\ tick' = info
           /\ env' = e

InlineTick ==
    /\ prog \in InlineProgs
    /\ pc = "loop"
    /\ InlineIteration("free", RssiInputs, DistInputs)

\* the same iteration in an observed run of at most MaxTicks iterations
InlineTickObserved ==
    /\ prog \in InlineProgs
    /\ pc = "loop"
    /\ InlineIteration("observed", RssiInputs, DistInputs)

\* the same iteration in an observed run, on the samples of the signal
\* scenario and with no close range reading
InlineTickScripted ==
    /\ prog \in InlineProgs
    /\ pc = "loop"
    /\ InlineIteration("observed", ScriptRssi, FarInputs)

\* the same iteration on the signal levels of a trend run
InlineTickTrend ==
    /\ prog \in InlineProgs
    /\ pc = "loop"
    /\ InlineIteration("trend", TrendInputs, DistInputs)

\* the same iteration in a run that records the burst it was given, with a
\* far or a close range reading
InlineTickCount ==
    /\ prog \in InlineProgs
    /\ pc = "loop"
    /\ InlineIteration("count", RssiInputs, {15, 40})

\* the same iteration on the signal levels around the two thresholds of
\* wifi_bot2.py, with a far or a close range reading; the signal value it
\* used is recorded
InlineTickTarget ==
    /\ prog \in InlineProgs
    /\ pc = "loop"
    /\ InlineIteration("target", TargetInputs, {15, 40})

\* the same iteration in a traced run: the signal value it used is recorded
InlineTickTraced ==
    /\ prog \in InlineProgs
    /\ pc = "loop"
    /\ InlineIteration("traced", RssiInputs, DistInputs)

\* the same iteration in a timed run
InlineTickTimed ==
    /\ prog \in InlineProgs
    /\ pc = "loop"
    /\ InlineIteration("timed", RssiInputs, DistInputs)

\* the rest of a maneuver after one of its sleeps
InlineManeuver ==
    /\ prog \in InlineProgs
    /\ \/ /\ pc = "avoid_scan"
          /\ \E left \in {None, 15, 40}, right \in {None, 15, 40} :
                /\ Take(InlineAvoidScan(prog, self, px))
                /\ loc' = [loc EXCEPT !.direction = ScanDirection(left, right)]
       \/ /\ pc = "avoid_back"
          /\ Take(InlineAvoidTurn(prog, self, px, loc.direction))
          /\ loc' = loc
       \/ /\ pc = "avoid_fwd"
          /\ Take(InlineAvoidEnd(prog, self, px, loc.curr_rssi))
          /\ loc' = NoLoc
       \/ /\ pc = "reorient"
          /\ Take(InlineReorientEnd(prog, self, px, loc.curr_rssi))
          /\ loc' = NoLoc
       \/ /\ pc = "false_alarm"
          /\ Take(InlineFalseAlarmEnd(prog, self, px, loc.curr_rssi))
          /\ loc' = NoLoc
    /\ UNCHANGED <<tick, env>>

InlineLoopPcs == {"loop", "avoid_scan", "avoid_back", "avoid_fwd", "reorient", "false_alarm"}

\* Ctrl+C while the loop runs: except KeyboardInterrupt, then finally
InlineInterrupt ==
    /\ prog \in InlineProgs
    /\ pc \in InlineLoopPcs
    /\ Raise("KeyboardInterrupt", "finally")
    /\ UNCHANGED <<prog, self, px, loc, tick>>

\* Ctrl+C during the calibration burst, before the try statement
InlineCalibInterrupt ==
    /\ prog \in InlineProgs
    /\ pc = "calib"
    /\ Raise("KeyboardInterrupt", "crashed")
    /\ UNCHANGED <<prog, self, px, loc, tick>>

\* finally: px.stop(); test25.py also straightens the wheels and the head
InlineFinally ==
    /\ prog \in InlineProgs
    /\ pc = "finally"
    /\ px' = IF prog = "test25" THEN Tilt(Pan(Steer(Stop(px), 0), 0), 0) ELSE Stop(px)
    /\ pc' = "done"
    /\ UNCHANGED <<prog, exc, self, loc, tick, env>>

InitInline(p) ==
    /\ prog = p
    /\ pc = "calib"
    /\ exc = "none"
    /\ self = InlineInitSelf(p)
    /\ px = InlineInitPx
    /\ loc = NoLoc
    /\ tick = NoTick
    /\ env = InitEnv

(***************************************************************************)
(* Observed runs: the first MaxTicks iterations of run(), with the         *)
(* observers of env following the inputs.                                  *)
(***************************************************************************)
NextDebounce ==
    \/ MethodCalibrate
    \/ MethodTickObserved
    \/ MethodManeuver
    \/ InlineCalibrate
    \/ InlineTickObserved
    \/ InlineManeuver

\* final_version.py and test25.py: the two debounce filters
SpecDebounce ==
    (InitMethod("final_version") \/ InitInline("test25")) /\ [][NextDebounce]_vars

NextRange ==
    \/ InlineCalibrate
    \/ InlineTickObserved
    \/ InlineManeuver

\* test25.py and wifi_bot2.py on any range readings
SpecRange ==
    (InitInline("test25") \/ InitInline("wifi_bot2")) /\ [][NextRange]_vars

NextSignal ==
    \/ InlineCalibrate
    \/ InlineTickScripted
    \/ InlineManeuver

\* wifi_bot2.py and wifi_bot1.py on the samples of the signal scenario
SpecSignal ==
    (InitInline("wifi_bot2") \/ InitInline("wifi_bot1")) /\ [][NextSignal]_vars

(***************************************************************************)
(* test24.py: NavigationController with optional camera vision.  The       *)
(* scores of vision_step() are an input of the iteration: free_ahead,      *)
(* free_left and free_right in hundredths, ok = FALSE for scores = None.   *)
(***************************************************************************)
T24_TARGET_RSSI == -460
T24_APPROACH_THRESHOLD == -500
T24_MAX_STEER_ANGLE == 35
T24_OBSTACLE_DIST_CM == 25
T24_SPEED_SEARCH == 40
T24_SPEED_APPROACH == 30
T24_INITIAL_VALUE == -700
T24_LAST_RSSI == -1000
VISION_FREE_AHEAD_MIN == 55
VISION_STEER_GAIN == 135

NoScores ==
    [ok |-> FALSE, free_ahead |-> 0, free_left |-> 0, free_right |-> 0,
     window_risk |-> FALSE]

ScoreInputs ==
    {NoScores,
     [ok |-> TRUE, free_ahead |-> 80, free_left |-> 20, free_right |-> 90,
      window_risk |-> FALSE],
     [ok |-> TRUE, free_ahead |-> 30, free_left |-> 60, free_right |-> 40,
      window_risk |-> FALSE],
     [ok |-> TRUE, free_ahead |-> 90, free_left |-> 100, free_right |-> 0,
      window_risk |-> FALSE]}

T24RssiInputs == {-600, -400, -200}

\* clamp(x, lo, hi)
Clamp(v, lo, hi) == IF v < lo THEN lo ELSE IF v > hi THEN hi ELSE v

\* the vision steering without the clamp
VisionSteer_noclamp(sc) ==
    TruncDeg((VISION_STEER_GAIN * (sc.free_right - sc.free_left)
              * T24_MAX_STEER_ANGLE) \div 100)

\* steer = int(clamp(VISION_STEER_GAIN * bias * MAX_STEER_ANGLE, -MAX, MAX)),
\* computed in ten-thousandths of a degree and truncated to whole degrees
VisionSteer(sc) ==
    LET bias == sc.free_right - sc.free_left
        steer == VISION_STEER_GAIN * bias * T24_MAX_STEER_ANGLE
        lim == 10000 * T24_MAX_STEER_ANGLE
    IN  TruncDeg(Clamp(steer, -lim, lim) \div 100)

\* rssi = self.kf.filter(raw_rssi) if raw_rssi is not None else self.last_rssi
T24Signal(s, raw) ==
    IF raw # None
    THEN LET k == KalmanFilter(s.kf_x, s.kf_P, raw)
         IN  [rssi |-> k.x, self |-> [s EXCEPT !.kf_x = k.x, !.kf_P = k.P]]
    ELSE [rssi |-> s.last_rssi, self |-> s]

\* 2) hard safety: a single close reading puts the controller in AVOID
T24HardSafety(s, dist) ==
    IF dist # None /\ dist > 0 /\ dist < T24_OBSTACLE_DIST_CM /\ s.state # "FINISH"
    THEN [s EXCEPT !.state = "AVOID"]
    ELSE s

\* 3) soft safety / steering from vision
T24Vision(s, x, sc) ==
    IF sc.ok /\ s.state \in {"SEARCH", "APPROACH"}
    THEN IF sc.free_ahead < VISION_FREE_AHEAD_MIN \/ sc.window_risk
         THEN R([s EXCEPT !.state = "AVOID"], x, "loop", FALSE)
         ELSE R(s, Steer(x, VisionSteer(sc)), "loop", TRUE)
    ELSE R(s, x, "loop", FALSE)

\* direction = -1 if scores["free_left"] > scores["free_right"] else 1
VisionDirection(sc) == IF sc.free_left > sc.free_right THEN -1 ELSE 1

\* the AVOID branch up to its first sleep: with scores the turn direction is
\* known and the robot reverses, without them scan_surroundings() starts
T24Avoid(s, x, sc) ==
    IF sc.ok
    THEN R(s, Backward(Steer(x, 0), T24_SPEED_SEARCH), "avoid_back", TRUE)
    ELSE R(s, Pan(Stop(x), Deg(-45)), "avoid_scan", TRUE)

\* the rest of scan_surroundings, then reverse
T24AvoidScan(s, x) ==
    R(s, Backward(Steer(Tilt(Pan(x, 0), 0), 0), T24_SPEED_SEARCH), "avoid_back", TRUE)

\* turn_angle = int(direction * MAX_STEER_ANGLE), then forward
T24AvoidTurn(s, x, direction) ==
    R(s, Forward(Steer(x, direction * Deg(T24_MAX_STEER_ANGLE)), T24_SPEED_SEARCH),
      "avoid_fwd", TRUE)

\* the end of the AVOID branch and of the iteration
T24AvoidEnd(s, x, rssi) ==
    R([s EXCEPT !.state = "SEARCH", !.last_rssi = rssi], x, "loop", FALSE)

T24Search(s, x, rssi) ==
    IF rssi > T24_APPROACH_THRESHOLD
    THEN R([s EXCEPT !.state = "APPROACH"], Steer(x, 0), "loop", TRUE)
    ELSE R([s EXCEPT !.spiral_angle =
                        IF @ < 0 THEN @ + 5 ELSE Deg(-T24_MAX_STEER_ANGLE),
                     !.last_rssi = rssi],
           Steer(Forward(x, T24_SPEED_SEARCH), TruncDeg(s.spiral_angle)),
           "loop", TRUE)

\* APPROACH goes to FINISH on the first value at or above the target
T24Approach(s, x, rssi) ==
    IF rssi >= T24_TARGET_RSSI
    THEN R([s EXCEPT !.state = "FINISH"], x, "loop", FALSE)
    ELSE IF rssi - s.last_rssi >= 0
         THEN R([s EXCEPT !.last_rssi = rssi],
                Forward(x, T24_SPEED_APPROACH), "loop", TRUE)
         ELSE R([s EXCEPT !.last_rssi = rssi],
                Forward(Steer(x, Clamp(Deg(20), Deg(-T24_MAX_STEER_ANGLE),
                                       Deg(T24_MAX_STEER_ANGLE))),
                        T24_SPEED_APPROACH), "loop", TRUE)

\* the FINISH branch: stop, straighten, break
T24Finish(s, x) == R(s, Steer(Stop(x), 0), "finally", TRUE)

\* one iteration of the while loop of run(), up to its first sleep
T24LoopBody(s, x, raw, dist, sc) ==
    LET sig == T24Signal(s, raw)
        v == T24Vision(T24HardSafety(sig.self, dist), x, sc)
        r == CASE v.self.state = "AVOID" -> T24Avoid(v.self, v.px, sc)
               [] v.self.state = "SEARCH" -> T24Search(v.self, v.px, sig.rssi)
               [] v.self.state = "APPROACH" -> T24Approach(v.self, v.px, sig.rssi)
               [] v.self.state = "FINISH" -> T24Finish(v.self, v.px)
    IN  [r EXCEPT !.acts = @ \/ v.acts]

T24InitSelf ==
    [state |-> "SEARCH", last_rssi |-> T24_LAST_RSSI,
     spiral_angle |-> Deg(-T24_MAX_STEER_ANGLE),
     kf_x |-> T24_INITIAL_VALUE, kf_P |-> KF_P0]

\* the environment after an iteration of test24.py
T24EnvAfter(s, r, raw, dist, sc) ==
    [env EXCEPT !.spiral_steps = IF Spirals(s, r) THEN @ + 1 ELSE @,
                !.filter_updates = IF raw # None THEN @ + 1 ELSE @,
                !.reached = @ \/ T24Signal(s, raw).rssi >= T24_TARGET_RSSI,
                !.vsteer = IF T24Vision(T24HardSafety(T24Signal(s, raw).self, dist),
                                        px, sc).acts
                           THEN VisionSteer(sc) ELSE None]

T24Tick ==
    /\ prog = "test24"
    /\ pc = "loop"
    /\ \E raw \in BurstInputs(T24RssiInputs), dist \in DistInputs, sc \in ScoreInputs :
          LET r == T24LoopBody(self, px, raw, dist, sc)
              e == T24EnvAfter(self, r, raw, dist, sc)
          IN  /\ e.spiral_steps <= MaxSpiralSteps
              /\ e.filter_updates <= MaxVisionFilterUpdates
              /\ Take(r)
              /\ loc' = IF r.pc \in {"avoid_scan", "avoid_back"}
                        THEN [curr_rssi |-> T24Signal(self, raw).rssi,
                              direction |-> VisionDirection(sc)]
                        ELSE NoLoc
              /\ env' = e
    /\ UNCHANGED tick

\* the rest of the avoidance maneuver after one of its sleeps
T24Maneuver ==
    /\ prog = "test24"
    /\ \/ /\ pc = "avoid_scan"
          /\ \E left \in {None, 15, 40}, right \in {None, 15, 40} :
                /\ Take(T24AvoidScan(self, px))
                /\ loc' = [loc EXCEPT !.direction = ScanDirection(left, right)]
       \/ /\ pc = "avoid_back"
          /\ Take(T24AvoidTurn(self, px, loc.direction))
          /\ loc' = loc
       \/ /\ pc = "avoid_fwd"
          /\ Take(T24AvoidEnd(self, px, loc.curr_rssi))
          /\ loc' = NoLoc
    /\ UNCHANGED <<tick, env>>

\* the first actuator call of an iteration raises: the attributes assigned
\* before that call are kept; except Exception, outside the loop, takes it
T24ActuatorFault ==
    /\ prog = "test24"
    /\ pc = "loop"
    /\ \E raw \in BurstInputs(T24RssiInputs), dist \in DistInputs, sc \in ScoreInputs :
          LET r == T24LoopBody(self, px, raw, dist, sc)
          IN  /\ r.acts
              /\ T24EnvAfter(self, r, raw, dist, sc).filter_updates <= MaxVisionFilterUpdates
              /\ self' = [f \in DOMAIN self |->
                             IF f \in {"last_rssi", "spiral_angle"}
                             THEN self[f] ELSE r.self[f]]
    /\ Raise("Exception", "finally")
    /\ UNCHANGED <<prog, px, loc, tick>>

\* finally: try: stop, straighten the wheels, center the head
T24Finally ==
    /\ prog = "test24"
    /\ pc = "finally"
    /\ px' = Tilt(Pan(Steer(Stop(px), 0), 0), 0)
    /\ pc' = "done"
    /\ UNCHANGED <<prog, exc, self, loc, tick, env>>

\* finally: self.px.stop() raises as the call of the iteration did;
\* except Exception: pass
T24FinallyFault ==
    /\ prog = "test24"
    /\ pc = "finally"
    /\ exc = "Exception"
    /\ pc' = "done"
    /\ UNCHANGED <<prog, exc, self, px, loc, tick, env>>

InitT24 ==
    /\ prog = "test24"
    /\ pc = "loop"
    /\ exc = "none"
    /\ self = T24InitSelf
    /\ px = InlineInitPx
    /\ loc = NoLoc
    /\ tick = NoTick
    /\ env = InitEnv

(***************************************************************************)
(* Runs in which a drive, steer or stop call may raise.                    *)
(***************************************************************************)
NextFault ==
    \/ MethodCalibrate
    \/ MethodTick
    \/ MethodManeuver
    \/ MethodVictory
    \/ MethodActuatorFault
    \/ MethodFinally
    \/ MethodFinallyFault
    \/ T24Tick
    \/ T24Maneuver
    \/ T24ActuatorFault
    \/ T24Finally
    \/ T24FinallyFault

\* final_version.py and test24.py with actuator faults
SpecFault ==
    (InitMethod("final_version") \/ InitT24) /\ [][NextFault]_vars

(***************************************************************************)
(* main_navigation.py: main(), with RobustRSSIFilter of rssi_filter.py.    *)
(* self holds the window of the filter and its last valid value.           *)
(***************************************************************************)
MN_RSSI_WINDOW == 20
MN_RSSI_STABILITY == 50
MN_SAFE_DISTANCE == 20
MN_RAW_RSSI == -550

Abs(n) == IF n < 0 THEN -n ELSE n

\* deque(maxlen = n).append(v)
DequeAppend(w, v, n) == IF Len(w) < n THEN Append(w, v) ELSE Append(Tail(w), v)

\* diff1 <= threshold and diff2 <= threshold for the triplet that ends at i
StableTriplet(data, i, threshold) ==
    /\ Abs(data[i] - data[i - 1]) <= threshold
    /\ Abs(data[i - 1] - data[i - 2]) <= threshold

\* RobustRSSIFilter.update(rssi_val): the newest stable triplet, averaged
update(f, rssi_val) ==
    LET data == DequeAppend(f.window, rssi_val, MN_RSSI_WINDOW)
        stable == {i \in 3..Len(data) : StableTriplet(data, i, MN_RSSI_STABILITY)}
    IN  IF stable # {}
        THEN LET i == CHOOSE j \in stable : \A k \in stable : k <= j
                 avg_rssi == RoundDiv(data[i] + data[i - 1] + data[i - 2], 3)
             IN  [self |-> [f EXCEPT !.window = data, !.last_valid_rssi = avg_rssi],
                  valid_rssi |-> avg_rssi]
        ELSE [self |-> [f EXCEPT !.window = data], valid_rssi |-> f.last_valid_rssi]

\* the iteration with the vision layer tested before the rangefinder
MainLoopBody_visionfirst(s, x, distance, visual_obstacle) ==
    LET u == update(s, MN_RAW_RSSI)
    IN  IF visual_obstacle
        THEN R(u.self, Forward(Steer(x, Deg(30)), 30), "loop", TRUE)
        ELSE IF distance > 0 /\ distance < MN_SAFE_DISTANCE
             THEN R(u.self, Forward(x, 0), "estop", TRUE)
             ELSE IF u.valid_rssi # None
                  THEN R(u.self, Forward(Steer(x, 0), 50), "loop", TRUE)
                  ELSE R(u.self, Forward(x, 0), "loop", TRUE)

\* one iteration of the while loop of main(), up to its first sleep, for a
\* distance that is a number
MainLoopBody(s, x, distance, visual_obstacle) ==
    LET u == update(s, MN_RAW_RSSI)
    IN  IF distance > 0 /\ distance < MN_SAFE_DISTANCE
        THEN R(u.self, Forward(x, 0), "estop", TRUE)
        ELSE IF visual_obstacle
             THEN R(u.self, Forward(Steer(x, Deg(30)), 30), "loop", TRUE)
             ELSE IF u.valid_rssi # None
                  THEN R(u.self, Forward(Steer(x, 0), 50), "loop", TRUE)
                  ELSE R(u.self, Forward(x, 0), "loop", TRUE)

\* reflexive back-off after the emergency stop
MainBackOff(s, x) == R(s, Backward(Steer(x, Deg(-30)), 50), "backoff", TRUE)

MainBackOffEnd(s, x) == R(s, Forward(x, 0), "loop", TRUE)

MainInitSelf == [window |-> <<>>, last_valid_rssi |-> None]

\* an iteration; distance = None makes the comparison distance > 0 raise
\* TypeError, for which main() has no handler
MainTick ==
    /\ prog = "main_navigation"
    /\ pc = "loop"
    /\ \E distance \in DistInputs, visual_obstacle \in BOOLEAN :
          IF distance = None
          THEN /\ self' = update(self, MN_RAW_RSSI).self
               /\ Raise("Exception", "crashed")
               /\ UNCHANGED <<prog, px>>
          ELSE /\ Take(MainLoopBody(self, px, distance, visual_obstacle))
               /\ env' = env
    /\ UNCHANGED <<loc, tick>>

\* the inputs of an iteration: the range reading, the vision flag and the
\* value the RSSI filter returned
MainTickInfo(distance, visual_obstacle, valid_rssi) ==
    [distance |-> distance, visual_obstacle |-> visual_obstacle, valid_rssi |-> valid_rssi]

\* the same iteration in a run that records its inputs
MainTickTraced ==
    /\ prog = "main_navigation"
    /\ pc = "loop"
    /\ \E distance \in DistInputs, visual_obstacle \in BOOLEAN :
          /\ IF distance = None
             THEN /\ self' = update(self, MN_RAW_RSSI).self
                  /\ Raise("Exception", "crashed")
                  /\ UNCHANGED <<prog, px>>
             ELSE /\ Take(MainLoopBody(self, px, distance, visual_obstacle))
                  /\ env' = env
          /\ tick' = MainTickInfo(distance, visual_obstacle,
                                  update(self, MN_RAW_RSSI).valid_rssi)
    /\ UNCHANGED loc

MainManeuver ==
    /\ prog = "main_navigation"
    /\ \/ /\ pc = "estop"
          /\ Take(MainBackOff(self, px))
       \/ /\ pc = "backoff"
          /\ Take(MainBackOffEnd(self, px))
    /\ UNCHANGED <<loc, tick, env>>

\* the first actuator call of an iteration raises
MainActuatorFault ==
    /\ prog = "main_navigation"
    /\ pc = "loop"
    /\ self' = update(self, MN_RAW_RSSI).self
    /\ Raise("Exception", "crashed")
    /\ UNCHANGED <<prog, px, loc, tick>>

\* except KeyboardInterrupt: px.stop(), then the vision thread is stopped
MainInterrupt ==
    /\ prog = "main_navigation"
    /\ pc \in {"loop", "estop", "backoff"}
    /\ px' = Stop(px)
    /\ Raise("KeyboardInterrupt", "done")
    /\ UNCHANGED <<prog, self, loc, tick>>

InitMain ==
    /\ prog = "main_navigation"
    /\ pc = "loop"
    /\ exc = "none"
    /\ self = MainInitSelf
    /\ px = InlineInitPx
    /\ loc = NoLoc
    /\ tick = NoTick
    /\ env = InitEnv

\* main_navigation.py, runs that record the inputs of every iteration
SpecLayers ==
    /\ InitMain
    /\ [][\/ MainTickTraced
          \/ MainManeuver]_vars

(***************************************************************************)
(* rssi_filter.py: RobustRSSIFilter on its own, called with arbitrary      *)
(* samples.  self holds the attributes of the filter; the window size is   *)
(* a bound of the model, the threshold is the default of __init__.         *)
(***************************************************************************)
MaxWindow == 4
RF_STABILITY_THRESHOLD == 30

\* samples 2.0, 4.0 and 6.0 dB apart: only the first pair is within the threshold
RobustInputs == {-600, -580, -540}

\* the loop run from the oldest triplet up
\* a fallback that forgets the last valid value
Fallback_none(f) == None

\* return self.last_valid_rssi, when no triplet of the window is stable
Fallback(f) == f.last_valid_rssi

RECURSIVE ScanOldestFirst(_, _, _)
ScanOldestFirst(data, i, threshold) ==
    IF i > Len(data) THEN 0
    ELSE IF StableTriplet(data, i, threshold) THEN i
    ELSE ScanOldestFirst(data, i + 1, threshold)

\* for i in range(len(data) - 1, 1, -1): the index of the first triplet, from
\* the newest down, that passes the test; 0 when the loop falls through
RECURSIVE ScanNewestFirst(_, _, _)
ScanNewestFirst(data, i, threshold) ==
    IF i < 3 THEN 0
    ELSE IF StableTriplet(data, i, threshold) THEN i
    ELSE ScanNewestFirst(data, i - 1, threshold)

\* the method with the triplets tried from the oldest to the newest
RobustRSSIFilter_update_oldest(f, rssi_val) ==
    LET data == DequeAppend(f.window, rssi_val, f.maxlen)
        i == IF Len(data) >= 3 THEN ScanOldestFirst(data, 3, f.threshold) ELSE 0
    IN  IF i # 0
        THEN LET avg_rssi == RoundDiv(data[i] + data[i - 1] + data[i - 2], 3)
             IN  [self |-> [f EXCEPT !.window = data, !.last_valid_rssi = avg_rssi],
                  ret |-> avg_rssi]
        ELSE [self |-> [f EXCEPT !.window = data], ret |-> f.last_valid_rssi]

\* RobustRSSIFilter.update(rssi_val), as the loop computes it
RobustRSSIFilter_update(f, rssi_val) ==
    LET data == DequeAppend(f.window, rssi_val, f.maxlen)
        i == IF Len(data) >= 3 THEN ScanNewestFirst(data, Len(data), f.threshold) ELSE 0
    IN  IF i # 0
        THEN LET avg_rssi == RoundDiv(data[i] + data[i - 1] + data[i - 2], 3)
             IN  [self |-> [f EXCEPT !.window = data, !.last_valid_rssi = avg_rssi],
                  ret |-> avg_rssi]
        ELSE [self |-> [f EXCEPT !.window = data], ret |-> Fallback(f)]

\* the triplets of a window that pass the stability test, by their last index
StableIndices(data, threshold) ==
    {i \in 3..Len(data) : StableTriplet(data, i, threshold)}

\* the sample of the last call, what it returned, and whether the window has
\* held a stable triplet at the end of any call so far
RobustCallInfo(val, ret, ever) == [val |-> val, ret |-> ret, ever |-> ever]

\* one call of update() with any sample
RobustCall ==
    /\ prog = "rssi_filter"
    /\ \E v \in RobustInputs :
          LET u == RobustRSSIFilter_update(self, v)
          IN  /\ self' = u.self
              /\ tick' = RobustCallInfo(v, u.ret,
                                        tick.ever \/ StableIndices(u.self.window, self.threshold) # {})
    /\ UNCHANGED <<prog, pc, exc, px, loc, env>>

\* RobustRSSIFilter(window_size, stability_threshold)
InitRobust ==
    /\ prog = "rssi_filter"
    /\ pc = "loop"
    /\ exc = "none"
    /\ self = [window |-> <<>>, maxlen |-> MaxWindow, threshold |-> RF_STABILITY_THRESHOLD,
               last_valid_rssi |-> None]
    /\ px = InlineInitPx
    /\ loc = NoLoc
    /\ tick = RobustCallInfo(None, None, FALSE)
    /\ env = InitEnv

SpecRobust == InitRobust /\ [][RobustCall]_vars

\* the iteration of main() took the branch "Signal unstable. halting."
HaltBranch(info) ==
    /\ info.distance # None
    /\ ~(info.distance > 0 /\ info.distance < MN_SAFE_DISTANCE)
    /\ ~info.visual_obstacle
    /\ info.valid_rssi = None

\* the filter on its own and inside the loop of main_navigation.py
SpecLock ==
    /\ InitRobust \/ InitMain
    /\ [][\/ RobustCall
          \/ MainTickTraced
          \/ MainManeuver]_vars

\* C36: once update() of RobustRSSIFilter has returned a value that is not
\* None, every later call returns one too; a call returns None only while
\* no window has held a stable triplet, so an iteration of main_navigation.py
\* takes the halting branch only while its window has never held one.
C36_LockPersists ==
    [][/\ (prog = "rssi_filter" /\ tick.ret # None) => (tick'.ret # None)
       /\ (prog = "rssi_filter" /\ tick'.ret = None) => (~tick'.ever)
       /\ (prog = "main_navigation" /\ pc = "loop" /\ pc' # "crashed" /\ HaltBranch(tick')) =>
             (/\ StableIndices(self'.window, MN_RSSI_STABILITY) = {}
              /\ StableIndices(self.window, MN_RSSI_STABILITY) = {}
              /\ self'.last_valid_rssi = None)]_vars

\* the filter returns the remembered value for a full window without a
\* stable triplet
C36_Witness ==
    /\ prog = "rssi_filter"
    /\ tick.ever
    /\ tick.ret # None
    /\ Len(self.window) = self.maxlen
    /\ StableIndices(self.window, self.threshold) = {}

(***************************************************************************)
(* vision_module.py: the VisionSystem thread beside the control loop of    *)
(* main_navigation.py.  self holds the attributes of the VisionSystem, pc  *)
(* the position of the control loop, loc the position and the locals of    *)
(* the vision thread and the value the control loop read last.             *)
(***************************************************************************)
\* positions of run() inside the with block of _analyze_obstacles
VisionLockedPcs == {"v_store", "v_release"}

\* what the run has seen: the flag stored by the last completed
\* _analyze_obstacles, the reads begun after stop() set running to False, and
\* whether a read was begun or a frame analysed after cap.release()
VisionTickInfo(stored, late_reads, read_released, infer_released) ==
    [stored |-> stored, late_reads |-> late_reads,
     read_released |-> read_released, infer_released |-> infer_released]

\* while self.running
VisionTest ==
    /\ prog = "vision_module"
    /\ loc.vpc = "v_test"
    /\ loc' = [loc EXCEPT !.vpc = IF self.running THEN "v_read" ELSE "v_exit"]
    /\ UNCHANGED <<prog, pc, exc, self, px, tick, env>>

\* ret, frame = self.cap.read(): the call begins
VisionReadBegin ==
    /\ prog = "vision_module"
    /\ loc.vpc = "v_read"
    /\ loc' = [loc EXCEPT !.vpc = "v_reading", !.cap_at_call = self.cap]
    /\ tick' = [tick EXCEPT !.late_reads = IF self.running THEN @ ELSE @ + 1,
                            !.read_released = @ \/ self.cap = "released"]
    /\ UNCHANGED <<prog, pc, exc, self, px, env>>

\* outcomes of a read: a frame or a failure from an open device, a failure
\* from a released one, and anything when release() ran during the call,
\* the death of the process included
ReadOutcomes(at_call, now) ==
    IF at_call = "released" THEN {"fail"}
    ELSE IF now = "open" THEN {"frame", "fail"}
    ELSE {"frame", "fail", "abort"}

\* ret, frame = self.cap.read(): the call returns; if not ret, sleep
VisionReadEnd ==
    /\ prog = "vision_module"
    /\ loc.vpc = "v_reading"
    /\ \E o \in ReadOutcomes(loc.cap_at_call, self.cap) :
          /\ loc' = [loc EXCEPT !.vpc = CASE o = "frame" -> "v_infer"
                                           [] o = "fail" -> "v_sleep"
                                           [] o = "abort" -> "v_dead",
                                !.cap_at_call = "open"]
          /\ pc' = IF o = "abort" THEN "crashed" ELSE pc
    /\ UNCHANGED <<prog, exc, self, px, tick, env>>

\* time.sleep(0.01); continue
VisionSleep ==
    /\ prog = "vision_module"
    /\ loc.vpc = "v_sleep"
    /\ loc' = [loc EXCEPT !.vpc = "v_test"]
    /\ UNCHANGED <<prog, pc, exc, self, px, tick, env>>

\* resize, inference, and the loop of _analyze_obstacles over the scores
VisionInfer ==
    /\ prog = "vision_module"
    /\ loc.vpc = "v_infer"
    /\ \E detected \in BOOLEAN :
          loc' = [loc EXCEPT !.vpc = "v_acquire", !.detected = detected]
    /\ tick' = [tick EXCEPT !.infer_released = @ \/ self.cap = "released"]
    /\ UNCHANGED <<prog, pc, exc, self, px, env>>

\* with self._lock: the thread waits for the lock and takes it
VisionAcquire ==
    /\ prog = "vision_module"
    /\ loc.vpc = "v_acquire"
    /\ self.lock = "free"
    /\ self' = [self EXCEPT !.lock = "vision"]
    /\ loc' = [loc EXCEPT !.vpc = "v_store"]
    /\ UNCHANGED <<prog, pc, exc, px, tick, env>>

\* self.obstacle_detected = detected
VisionStore ==
    /\ prog = "vision_module"
    /\ loc.vpc = "v_store"
    /\ self' = [self EXCEPT !.obstacle_detected = loc.detected]
    /\ loc' = [loc EXCEPT !.vpc = "v_release"]
    /\ UNCHANGED <<prog, pc, exc, px, tick, env>>

\* the with block ends and _analyze_obstacles returns
VisionRelease ==
    /\ prog = "vision_module"
    /\ loc.vpc = "v_release"
    /\ self' = [self EXCEPT !.lock = "free"]
    /\ loc' = [loc EXCEPT !.vpc = "v_test", !.detected = FALSE]
    /\ tick' = [tick EXCEPT !.stored = self.obstacle_detected]
    /\ UNCHANGED <<prog, pc, exc, px, env>>

\* visual_obstacle = vision_sys.is_obstacle_detected(): the call begins
ControlPoll ==
    /\ prog = "vision_module"
    /\ pc = "loop"
    /\ pc' = "c_acquire"
    /\ UNCHANGED <<prog, exc, self, px, loc, tick, env>>

\* a control loop that reads the flag without the lock
ControlAcquire_nolock ==
    /\ prog = "vision_module"
    /\ pc = "c_acquire"
    /\ pc' = "c_read"
    /\ UNCHANGED <<prog, exc, self, px, loc, tick, env>>

\* with self._lock: the control loop waits for the lock and takes it
ControlAcquire ==
    /\ prog = "vision_module"
    /\ pc = "c_acquire"
    /\ self.lock = "free"
    /\ self' = [self EXCEPT !.lock = "control"]
    /\ pc' = "c_read"
    /\ UNCHANGED <<prog, exc, px, loc, tick, env>>

\* return self.obstacle_detected, which ends the with block
ControlRead ==
    /\ prog = "vision_module"
    /\ pc = "c_read"
    /\ loc' = [loc EXCEPT !.visual_obstacle = self.obstacle_detected]
    /\ self' = [self EXCEPT !.lock = IF @ = "control" THEN "free" ELSE @]
    /\ pc' = "loop"
    /\ UNCHANGED <<prog, exc, px, tick, env>>

\* Ctrl+C in the try block: a with block in progress ends, then px.stop()
ControlInterrupt ==
    /\ prog = "vision_module"
    /\ pc \in {"loop", "c_acquire", "c_read"}
    /\ exc' = "KeyboardInterrupt"
    /\ self' = [self EXCEPT !.lock = IF @ = "control" THEN "free" ELSE @]
    /\ px' = Stop(px)
    /\ pc' = "c_stop"
    /\ UNCHANGED <<prog, loc, tick, env>>

\* stop(): self.running = False
ControlStopFlag ==
    /\ prog = "vision_module"
    /\ pc = "c_stop"
    /\ self' = [self EXCEPT !.running = FALSE]
    /\ pc' = "c_release"
    /\ UNCHANGED <<prog, exc, px, loc, tick, env>>

\* stop(): self.cap.release()
ControlStopRelease ==
    /\ prog = "vision_module"
    /\ pc = "c_release"
    /\ self' = [self EXCEPT !.cap = "released"]
    /\ pc' = "c_join"
    /\ UNCHANGED <<prog, exc, px, loc, tick, env>>

\* vision_sys.join() returns once run() has returned
ControlJoin ==
    /\ prog = "vision_module"
    /\ pc = "c_join"
    /\ loc.vpc = "v_exit"
    /\ pc' = "done"
    /\ UNCHANGED <<prog, exc, self, px, loc, tick, env>>

\* VisionSystem(MODEL_PATH); vision_sys.start()
InitVision ==
    /\ prog = "vision_module"
    /\ pc = "loop"
    /\ exc = "none"
    /\ self = [running |-> TRUE, obstacle_detected |-> FALSE, lock |-> "free", cap |-> "open"]
    /\ px = InlineInitPx
    /\ loc = [vpc |-> "v_test", cap_at_call |-> "open", detected |-> FALSE,
              visual_obstacle |-> FALSE]
    /\ tick = VisionTickInfo(FALSE, 0, FALSE, FALSE)
    /\ env = InitEnv

VisionThread ==
    \/ VisionTest
    \/ VisionReadBegin
    \/ VisionReadEnd
    \/ VisionSleep
    \/ VisionInfer
    \/ VisionAcquire
    \/ VisionStore
    \/ VisionRelease

ControlLoop ==
    \/ ControlPoll
    \/ ControlAcquire
    \/ ControlRead
    \/ ControlStopFlag
    \/ ControlStopRelease
    \/ ControlJoin

NextVision ==
    \/ VisionTest
    \/ VisionReadBegin
    \/ VisionReadEnd
    \/ VisionSleep
    \/ VisionInfer
    \/ VisionAcquire
    \/ VisionStore
    \/ VisionRelease
    \/ ControlPoll
    \/ ControlAcquire
    \/ ControlRead
    \/ ControlInterrupt
    \/ ControlStopFlag
    \/ ControlStopRelease
    \/ ControlJoin

\* every interleaving of the vision thread and the control loop
SpecVision == InitVision /\ [][NextVision]_vars

\* the same with both threads scheduled again and again; Ctrl+C is up to the
\* user
SpecVisionFair ==
    /\ InitVision
    /\ [][NextVision]_vars
    /\ WF_vars(VisionThread)
    /\ WF_vars(ControlLoop)

(***************************************************************************)
(* test8.py: the script's main loop.  self holds the module globals and    *)
(* the local seek_dir.                                                     *)
(***************************************************************************)
T8_FINISH_THRESHOLD == -460
T8_RSSI_TOLERANCE == 10
T8_SPEED_FAST == 40
T8_SPEED_TURN == 30
T8_MAX_TURN_ANGLE == 20
T8_WINDOW_SIZE == 10
T8_LAST_GOOD_RSSI == -1000

T8RssiInputs == {-600, -400}

RECURSIVE SeqSum(_)
SeqSum(q) == IF q = <<>> THEN 0 ELSE Head(q) + SeqSum(Tail(q))

\* drive(speed, angle): the angle is limited to +-MAX_TURN_ANGLE
drive(x, speed, angle) ==
    Forward(Steer(x, Clamp(angle, Deg(-T8_MAX_TURN_ANGLE), Deg(T8_MAX_TURN_ANGLE))),
            speed)

stop_all(x) == Steer(Stop(x), 0)

\* the steering decision once the window is full
T8Steer(s, x, avg_rssi) ==
    IF avg_rssi - s.last_good_rssi >= -T8_RSSI_TOLERANCE
    THEN R([s EXCEPT !.current_angle = 0, !.last_good_rssi = avg_rssi],
           drive(x, T8_SPEED_FAST, 0), "loop", TRUE)
    ELSE IF s.current_angle = 0
         THEN LET a == Deg(T8_MAX_TURN_ANGLE) * s.seek_dir
              IN  R([s EXCEPT !.current_angle = a],
                    drive(x, T8_SPEED_TURN, a), "loop", TRUE)
         ELSE LET d == -s.seek_dir
                  a == Deg(T8_MAX_TURN_ANGLE) * d
              IN  R([s EXCEPT !.seek_dir = d, !.current_angle = a,
                              !.last_good_rssi = avg_rssi],
                    drive(x, T8_SPEED_TURN, a), "loop", TRUE)

\* one iteration of the while loop, up to its first sleep, for a dist_cm that
\* is a number
T8LoopBody(s, x, dist_cm, raw) ==
    IF 0 < dist_cm /\ dist_cm < 20
    THEN R(s, Stop(x), "avoid_stop", TRUE)
    ELSE IF raw = None
         THEN R(s, x, "loop", FALSE)
         ELSE LET h == DequeAppend(s.rssi_history, raw, T8_WINDOW_SIZE)
                  s1 == [s EXCEPT !.rssi_history = h]
                  avg_rssi == RoundDiv(SeqSum(h), Len(h))
              IN  IF Len(h) < T8_WINDOW_SIZE
                  THEN R(s1, x, "loop", FALSE)
                  ELSE IF avg_rssi >= T8_FINISH_THRESHOLD
                       THEN R(s1, stop_all(x), "done", TRUE)
                       ELSE T8Steer(s1, x, avg_rssi)

\* avoid_obstacle() after its first sleep: reverse
T8AvoidBack(s, x) == R(s, Backward(Steer(x, 0), 40), "avoid_back", TRUE)

\* avoid_obstacle() after its second sleep: rssi_history.clear(), continue
T8AvoidEnd(s, x) == R([s EXCEPT !.rssi_history = <<>>], x, "loop", FALSE)

T8InitSelf ==
    [rssi_history |-> <<>>, last_good_rssi |-> T8_LAST_GOOD_RSSI,
     current_angle |-> 0, seek_dir |-> 1]

\* an iteration; dist_cm = None makes the comparison 0 < dist_cm raise
\* TypeError, for which the script has no handler
T8Tick ==
    /\ prog = "test8"
    /\ pc = "loop"
    /\ \E dist_cm \in DistInputs, raw \in BurstInputs(T8RssiInputs) :
          IF dist_cm = None
          THEN /\ Raise("Exception", "crashed")
               /\ UNCHANGED <<prog, self, px>>
          ELSE /\ Take(T8LoopBody(self, px, dist_cm, raw))
               /\ env' = env
    /\ UNCHANGED <<loc, tick>>

T8Maneuver ==
    /\ prog = "test8"
    /\ \/ /\ pc = "avoid_stop"
          /\ Take(T8AvoidBack(self, px))
       \/ /\ pc = "avoid_back"
          /\ Take(T8AvoidEnd(self, px))
    /\ UNCHANGED <<loc, tick, env>>

\* the first actuator call of an iteration raises: the globals assigned
\* before that call are kept
T8ActuatorFault ==
    /\ prog = "test8"
    /\ pc = "loop"
    /\ \E dist_cm \in DistInputs \ {None}, raw \in BurstInputs(T8RssiInputs) :
          LET r == T8LoopBody(self, px, dist_cm, raw)
          IN  /\ r.acts
              /\ self' = r.self
    /\ Raise("Exception", "crashed")
    /\ UNCHANGED <<prog, px, loc, tick>>

\* except KeyboardInterrupt: stop_all()
T8Interrupt ==
    /\ prog = "test8"
    /\ pc \in {"loop", "avoid_stop", "avoid_back"}
    /\ px' = stop_all(px)
    /\ Raise("KeyboardInterrupt", "done")
    /\ UNCHANGED <<prog, self, loc, tick>>

\* the script calls stop_all() before the loop
InitT8 ==
    /\ prog = "test8"
    /\ pc = "loop"
    /\ exc = "none"
    /\ self = T8InitSelf
    /\ px = MethodInitPx
    /\ loc = NoLoc
    /\ tick = NoTick
    /\ env = InitEnv

(***************************************************************************)
(* Runs of the scripts that handle KeyboardInterrupt only.                 *)
(***************************************************************************)
NextCrash ==
    \/ MainTick
    \/ MainManeuver
    \/ MainActuatorFault
    \/ MainInterrupt
    \/ T8Tick
    \/ T8Maneuver
    \/ T8ActuatorFault
    \/ T8Interrupt

\* main_navigation.py and test8.py with exceptions
SpecCrash ==
    (InitMain \/ InitT8) /\ [][NextCrash]_vars

(***************************************************************************)
(* RSSIKalmanFilter on its own: filter() called on one filter object with  *)
(* any sequence of measurements, None included; and traced runs of         *)
(* test25.py, which record the signal value each iteration used.           *)
(***************************************************************************)
KalmanInit == [kf_x |-> T25_INITIAL_VALUE, kf_P |-> KF_P0]

InitKalman ==
    /\ prog = "RSSIKalmanFilter"
    /\ pc = "filter"
    /\ exc = "none"
    /\ self = KalmanInit
    /\ px = InlineInitPx
    /\ loc = NoLoc
    /\ tick = NoTick
    /\ env = InitEnv

\* one call filter(z); env.used is the value returned
KalmanCall ==
    /\ prog = "RSSIKalmanFilter"
    /\ pc = "filter"
    /\ \E z \in RssiInputs \cup {None} :
          LET r == filter(self, z)
              n == IF z # None THEN env.filter_updates + 1 ELSE env.filter_updates
          IN  /\ n <= MaxKalmanCalls
              /\ self' = r.self
              /\ tick' = TickInfo("filter", z # None, FALSE, FALSE)
              /\ env' = [env EXCEPT !.filter_updates = n, !.used = r.ret]
    /\ UNCHANGED <<prog, pc, exc, px, loc>>

NextFilter ==
    \/ KalmanCall
    \/ InlineCalibrate
    \/ InlineTickTraced
    \/ InlineManeuver
    \/ InlineFinally

\* the filter on its own, and traced runs of test25.py
SpecFilter ==
    (InitKalman \/ InitInline("test25")) /\ [][NextFilter]_vars

(***************************************************************************)
(* Traced runs of the two obstacle monitors with a debounce counter:       *)
(* check_obstacle of final_version.py and the inline debounce of test25.py.*)
(***************************************************************************)
SpecMonitor ==
    /\ InitMethod("final_version") \/ InitInline("test25")
    /\ [][\/ MethodCalibrate
          \/ MethodTickTraced
          \/ MethodManeuver
          \/ MethodVictory
          \/ MethodFinally
          \/ InlineCalibrate
          \/ InlineTickTraced
          \/ InlineManeuver
          \/ InlineFinally]_vars

(***************************************************************************)
(* Free runs of test25.py and wifi_bot2.py, long enough for wifi_bot2.py   *)
(* to take the VERIFY_TOTAL_CHECKS samples of a verification.              *)
(***************************************************************************)
SpecVerify ==
    /\ InitInline("test25") \/ InitInline("wifi_bot2")
    /\ [][\/ InlineCalibrate
          \/ InlineTick
          \/ InlineManeuver
          \/ InlineFinally]_vars

(***************************************************************************)
(* Trend runs: the four controllers with a consecutive_drops counter on    *)
(* signals that stay below the target.                                     *)
(***************************************************************************)
SpecTrend ==
    /\ \/ InitMethod("final_version")
       \/ InitMethod("wifi_bot3")
       \/ InitInline("wifi_bot2")
       \/ InitInline("wifi_bot1")
    /\ [][\/ MethodCalibrate
          \/ MethodTickTrend
          \/ MethodManeuver
          \/ InlineCalibrate
          \/ InlineTickTrend
          \/ InlineManeuver]_vars

(***************************************************************************)
(* fast_bot.py and find_me_hotspot.py: main() steers by the change of a    *)
(* moving average of the RSSI.  The window is full from the calibration    *)
(* on, so an average is kept as the sum of its window: the unit of an      *)
(* averaged RSSI is 0.1 / RSSI_AVG_WINDOW dBm, and Avg scales a value of   *)
(* the source to it.                                                       *)
(***************************************************************************)
HotProgs == {"fast_bot", "find_me_hotspot"}

FB_STOP_RSSI == -400
FB_STOP_HOLD_COUNT == 3
FB_RSSI_AVG_WINDOW == 6
FB_DEADBAND_DB == 10
FB_DIST_CRITICAL == 15
FB_DIST_SAFE_STOP == 35
FB_SPEED_FORWARD == 26
FB_SPEED_SLOW == 20
FB_SPEED_BACK == 40
FB_BIG_TURN_ANGLE == 25
FB_SMALL_ZIGZAG_ANGLE == 10

FM_TARGET_DELTA_DB == 80
FM_MIN_ABS_RSSI == -350
FM_TARGET_HOLD_COUNT == 4
FM_DIST_CRITICAL == 18
FM_STOP_DIST == 40
FM_KP == 4
FM_DEADBAND == 15
FM_MAX_STEER_ANGLE == 35
FM_SPEED_FORWARD == 35
FM_SPEED_SEARCH == 25
FM_SPEED_BACKWARD == 45
FM_RSSI_AVG_WINDOW == 4

RSSI_AVG_WINDOW(p) == IF p = "fast_bot" THEN FB_RSSI_AVG_WINDOW ELSE FM_RSSI_AVG_WINDOW
HOLD_COUNT(p) == IF p = "fast_bot" THEN FB_STOP_HOLD_COUNT ELSE FM_TARGET_HOLD_COUNT
DIST_CRITICAL(p) == IF p = "fast_bot" THEN FB_DIST_CRITICAL ELSE FM_DIST_CRITICAL

\* a value of the source, in tenths of a dBm, in the unit of the averages
Avg(p, v) == v * RSSI_AVG_WINDOW(p)

\* what get_rssi_connected() returns: -100.0 when no signal can be read, and
\* two levels chosen so that one more or one fewer high reading in the window
\* moves the average across the stop threshold, and by exactly 1.0 dB in
\* fast_bot.py
HotInputs(p) == IF p = "fast_bot" THEN {-1000, -430, -370} ELSE {-1000, -380, -320}

\* px.ultrasonic.read(): no echo, closer than DIST_CRITICAL, closer than the
\* stop distance, far
HotDistInputs == {0, 10, 30, 100}

\* MovingAverage.add: the window after the append (deque with maxlen = size);
\* the value returned is SeqSum of it
MovingAverage_add(window, size, value) ==
    IF Len(window) < size THEN Append(window, value) ELSE Append(Tail(window), value)

\* read_distance() of fast_bot.py, and dist <= 0 -> 100 of find_me_hotspot.py
read_distance(p, d) ==
    IF p = "fast_bot"
    THEN (IF d <= 0 \/ d > 250 THEN 250 ELSE d)
    ELSE (IF d <= 0 THEN 100 ELSE d)

\* what an iteration did, with the average it computed, its change and the
\* number of consecutive RSSI updates at or above the stop threshold
HotTick(kind, curr, diff, run) == [kind |-> kind, curr |-> curr, diff |-> diff, run |-> run]

\* the hot / cold classes of fast_bot.py with DEADBAND_DB in place of the bound
Classify_inclusive(diff, deadband) ==
    IF diff >= deadband THEN "improving"
    ELSE IF diff <= -deadband THEN "degrading"
    ELSE "noise"

\* if diff > DEADBAND_DB / elif diff < -DEADBAND_DB / else
Classify(diff, deadband) ==
    IF diff > deadband THEN "improving"
    ELSE IF diff < -deadband THEN "degrading"
    ELSE "noise"

\* the RSSI block of an iteration of fast_bot.py whose timer has expired
FastBotUpdate(s, x, raw) ==
    LET window == MovingAverage_add(s.window, FB_RSSI_AVG_WINDOW, raw)
        curr_rssi == SeqSum(window)
        diff == curr_rssi - s.last_rssi
        count == IF curr_rssi >= Avg("fast_bot", FB_STOP_RSSI)
                 THEN s.good_rssi_count + 1
                 ELSE IF s.good_rssi_count >= 1 THEN s.good_rssi_count - 1 ELSE 0
        s1 == [s EXCEPT !.window = window, !.good_rssi_count = count]
        class == Classify(diff, Avg("fast_bot", FB_DEADBAND_DB))
    IN  IF count >= FB_STOP_HOLD_COUNT
        THEN [R(s1, Stop(x), "finally", TRUE) EXCEPT !.acts = "arrived"]
        ELSE IF curr_rssi <= Avg("fast_bot", -950)
        THEN [R([s1 EXCEPT !.zigzag_dir = -@, !.last_rssi = curr_rssi],
                Forward(Steer(x, Deg(FB_SMALL_ZIGZAG_ANGLE * (-s.zigzag_dir))), FB_SPEED_SLOW),
                "loop", TRUE) EXCEPT !.acts = "lost"]
        ELSE IF class = "improving"
        THEN [R([s1 EXCEPT !.last_rssi = curr_rssi],
                Forward(Steer(x, 0), FB_SPEED_FORWARD), "loop", TRUE)
                EXCEPT !.acts = class]
        ELSE IF class = "degrading"
        THEN [R([s1 EXCEPT !.turn_direction = -@, !.last_rssi = curr_rssi],
                Forward(Steer(x, Deg(FB_BIG_TURN_ANGLE * (-s.turn_direction))), FB_SPEED_SLOW),
                "loop", TRUE) EXCEPT !.acts = class]
        ELSE [R([s1 EXCEPT !.zigzag_dir = -@, !.last_rssi = curr_rssi],
                Forward(Steer(x, Deg(FB_SMALL_ZIGZAG_ANGLE * (-s.zigzag_dir))), FB_SPEED_FORWARD),
                "loop", TRUE) EXCEPT !.acts = class]

\* the RSSI block of an iteration of find_me_hotspot.py whose timer has expired
FindMeUpdate(s, x, dist, raw) ==
    LET window == MovingAverage_add(s.window, FM_RSSI_AVG_WINDOW, raw)
        curr_rssi == SeqSum(window)
        diff == curr_rssi - s.last_rssi
        count == IF curr_rssi >= s.target_rssi
                 THEN s.in_target_count + 1
                 ELSE IF s.in_target_count >= 1 THEN s.in_target_count - 1 ELSE 0
        s1 == [s EXCEPT !.window = window, !.in_target_count = count]
        s2 == [s1 EXCEPT !.last_rssi = curr_rssi]
        kp == (100 * FM_KP * Abs(diff)) \div Avg("find_me_hotspot", 10)
        angle == IF kp > Deg(FM_MAX_STEER_ANGLE) THEN Deg(FM_MAX_STEER_ANGLE) ELSE kp
    IN  IF dist < FM_STOP_DIST /\ curr_rssi > s.start_rssi + Avg("find_me_hotspot", 30)
        THEN [R(s1, Stop(x), "finally", TRUE) EXCEPT !.acts = "near"]
        ELSE IF count >= FM_TARGET_HOLD_COUNT
        THEN [R(s1, Stop(x), "finally", TRUE) EXCEPT !.acts = "arrived"]
        ELSE IF curr_rssi <= Avg("find_me_hotspot", -950)
        THEN [R([s2 EXCEPT !.turn_direction = -@],
                Forward(Steer(x, Deg(FM_MAX_STEER_ANGLE * (-s.turn_direction))), FM_SPEED_SEARCH),
                "loop", TRUE) EXCEPT !.acts = "lost"]
        ELSE IF diff >= Avg("find_me_hotspot", -5)
        THEN [R(s2, Forward(Steer(x, 0), FM_SPEED_FORWARD), "loop", TRUE)
                EXCEPT !.acts = "improving"]
        ELSE IF Abs(diff) < Avg("find_me_hotspot", FM_DEADBAND)
        THEN [R(s2, Forward(Steer(x, 0), (FM_SPEED_FORWARD * 9) \div 10), "loop", TRUE)
                EXCEPT !.acts = "noise"]
        ELSE [R([s2 EXCEPT !.turn_direction = -@],
                Forward(Steer(x, angle * (-s.turn_direction)), FM_SPEED_SEARCH),
                "loop", TRUE) EXCEPT !.acts = "degrading"]

\* one pass of while True: the range tests, then the RSSI block if the timer
\* has expired (due); acts names what the pass did
HotLoopBody(p, s, x, d, due, raw) ==
    LET dist == read_distance(p, d)
    IN  IF dist < DIST_CRITICAL(p)
        THEN [R(s, Backward(Stop(x), IF p = "fast_bot" THEN FB_SPEED_BACK ELSE FM_SPEED_BACKWARD),
                "back", TRUE) EXCEPT !.acts = "avoid"]
        ELSE IF p = "fast_bot" /\ dist < FB_DIST_SAFE_STOP
                /\ s.last_rssi >= Avg(p, FB_STOP_RSSI - 20)
        THEN [R(s, Stop(x), "finally", TRUE) EXCEPT !.acts = "near"]
        ELSE IF ~due
        THEN [R(s, x, "loop", FALSE) EXCEPT !.acts = "idle"]
        ELSE IF p = "fast_bot" THEN FastBotUpdate(s, x, raw)
        ELSE FindMeUpdate(s, x, dist, raw)

\* maneuver_avoid after its first sleep: turn while backing
HotAvoidTurn(p, s, x) ==
    IF p = "fast_bot"
    THEN R(s, Backward(Steer(x, Deg(FB_BIG_TURN_ANGLE * s.turn_direction)), FB_SPEED_BACK),
           "back_turn", TRUE)
    ELSE R(s, Backward(Steer(x, Deg(-30)), (FM_SPEED_BACKWARD * 7) \div 10), "back_turn", TRUE)

\* maneuver_avoid after its second sleep: straighten and stop
HotAvoidRest(s, x) == R(s, Stop(Steer(x, 0)), "rest", TRUE)

\* back in main() after the maneuver: the side is changed, the filter takes a
\* reading, the hold counter is reset, continue
HotAvoidEnd(p, s, x, raw) ==
    LET window == MovingAverage_add(s.window, RSSI_AVG_WINDOW(p), raw)
        s1 == [s EXCEPT !.turn_direction = -@, !.window = window, !.last_rssi = SeqSum(window)]
    IN  R(IF p = "fast_bot" THEN [s1 EXCEPT !.good_rssi_count = 0]
          ELSE [s1 EXCEPT !.in_target_count = 0], x, "loop", FALSE)

\* the number of consecutive RSSI updates, this one included, whose average
\* was at or above the stop threshold (counted up to the hold count)
AboveRunAfter(p, s, r, n) ==
    LET above == IF p = "fast_bot"
                 THEN SeqSum(r.self.window) >= Avg(p, FB_STOP_RSSI)
                 ELSE SeqSum(r.self.window) >= s.target_rssi
    IN  IF r.acts \in {"avoid", "idle"} \/ (p = "fast_bot" /\ r.acts = "near") THEN n
        ELSE IF ~above THEN 0
        ELSE IF n >= HOLD_COUNT(p) THEN n ELSE n + 1

\* the objects of main() after the calibration with the reading base
HotInitSelf(p, base) ==
    LET window == [i \in 1..RSSI_AVG_WINDOW(p) |-> base]
        start == SeqSum(window)
    IN  IF p = "fast_bot"
        THEN [window |-> window, last_rssi |-> start, turn_direction |-> 1,
              zigzag_dir |-> 1, good_rssi_count |-> 0]
        ELSE [window |-> window, last_rssi |-> start, start_rssi |-> start,
              target_rssi |-> IF start + Avg(p, FM_TARGET_DELTA_DB) > Avg(p, FM_MIN_ABS_RSSI)
                              THEN start + Avg(p, FM_TARGET_DELTA_DB)
                              ELSE Avg(p, FM_MIN_ABS_RSSI),
              turn_direction |-> 1, in_target_count |-> 0]

\* base_rssi = get_rssi_connected(); the window is filled with it
HotCalibrate ==
    /\ prog \in HotProgs
    /\ pc = "calib"
    /\ \E base \in HotInputs(prog) : self' = HotInitSelf(prog, base)
    /\ pc' = "loop"
    /\ UNCHANGED <<prog, exc, px, loc, tick, env>>

HotTickStep ==
    /\ prog \in HotProgs
    /\ pc = "loop"
    /\ \E d \in HotDistInputs, due \in BOOLEAN, raw \in HotInputs(prog) :
          LET r == HotLoopBody(prog, self, px, d, due, raw)
          IN  /\ Take(r)
              /\ tick' = HotTick(r.acts, SeqSum(r.self.window),
                                 SeqSum(r.self.window) - self.last_rssi,
                                 AboveRunAfter(prog, self, r, tick.run))
    /\ UNCHANGED <<loc, env>>

HotManeuver ==
    /\ prog \in HotProgs
    /\ \/ /\ pc = "back"
          /\ Take(HotAvoidTurn(prog, self, px))
          /\ UNCHANGED tick
       \/ /\ pc = "back_turn"
          /\ Take(HotAvoidRest(self, px))
          /\ UNCHANGED tick
       \/ /\ pc = "rest"
          /\ \E raw \in HotInputs(prog) : Take(HotAvoidEnd(prog, self, px, raw))
          /\ tick' = [tick EXCEPT !.run = 0]
    /\ UNCHANGED <<loc, env>>

\* finally: px.stop(); px.set_dir_servo_angle(SERVO_TRIM)
HotFinally ==
    /\ prog \in HotProgs
    /\ pc = "finally"
    /\ px' = Steer(Stop(px), 0)
    /\ pc' = "done"
    /\ UNCHANGED <<prog, exc, self, loc, tick, env>>

InitHot(p) ==
    /\ prog = p
    /\ pc = "calib"
    /\ exc = "none"
    /\ self = [window |-> <<>>]
    /\ px = MethodInitPx
    /\ loc = NoLoc
    /\ tick = HotTick("none", None, None, 0)
    /\ env = InitEnv

\* fast_bot.py and find_me_hotspot.py, runs without interrupts or faults
SpecHot ==
    /\ InitHot("fast_bot") \/ InitHot("find_me_hotspot")
    /\ [][\/ HotCalibrate
          \/ HotTickStep
          \/ HotManeuver
          \/ HotFinally]_vars

(***************************************************************************)
(* Traced runs of wifi_bot2.py on signals around its two thresholds.       *)
(***************************************************************************)
SpecTarget ==
    /\ InitInline("wifi_bot2")
    /\ [][\/ InlineCalibrate
          \/ InlineTickTarget
          \/ InlineManeuver
          \/ InlineFinally]_vars

(***************************************************************************)
(* wifi_bot3.py and wifi_bot2.py, runs that record the burst of every      *)
(* iteration; long enough for the verification to take all its samples.    *)
(***************************************************************************)
SpecCount ==
    /\ InitMethod("wifi_bot3") \/ InitInline("wifi_bot2")
    /\ [][\/ MethodCalibrate
          \/ MethodTickCount
          \/ MethodManeuver
          \/ MethodFinally
          \/ InlineCalibrate
          \/ InlineTickCount
          \/ InlineManeuver
          \/ InlineFinally]_vars

(***************************************************************************)
(* The burst readers: WiFiSensor.get_averaged_rssi of final_version.py,    *)
(* wifi_bot1.py, wifi_bot2.py and wifi_bot3.py, and get_stable_rssi of     *)
(* test25.py.  A burst is the list of the reads that succeeded, in order   *)
(* of arrival; the reads that failed leave no trace in it.                 *)
(***************************************************************************)
BurstProgs == {"final_version", "wifi_bot1", "wifi_bot2", "wifi_bot3", "test25"}

\* the count the callers pass: BURST_SAMPLES, and samples=10 in the calibration
\* of test25.py
BurstCounts(p) ==
    CASE p = "final_version" -> {5}
      [] p = "wifi_bot3" -> {10}
      [] p = "test25" -> {5, 10}
      [] OTHER -> {15}

\* the fraction trimmed from each end of a sorted burst, in percent
TrimPercent(p) == IF p \in {"final_version", "wifi_bot3"} THEN 10 ELSE 20

\* the burst with mid ordinary readings (-60.0 dBm), high strong ones (-44.0)
\* and low weak outliers (-90.0), arriving in that order
Burst(mid, high, low) ==
    [i \in 1..(mid + high + low) |->
        IF i <= mid THEN -600 ELSE IF i <= mid + high THEN -440 ELSE -900]

\* readings.sort(): insertion of each reading into the sorted rest
RECURSIVE Sorted(_)
Sorted(q) ==
    IF q = <<>>
    THEN <<>>
    ELSE LET rest == Sorted(Tail(q))
             below == SelectSeq(rest, LAMBDA v : v < Head(q))
             above == SelectSeq(rest, LAMBDA v : v >= Head(q))
         IN  below \o <<Head(q)>> \o above

\* statistics.mean(readings), sum(readings) / len(readings): to 0.1 dBm
Mean(q) == RoundDiv(SeqSum(q), Len(q))

\* readings[a:-a] for 0 < 2 * a < len(readings)
Trimmed(q, a) == SubSeq(q, a + 1, Len(q) - a)

\* a reader that trims one reading from each end of every burst
get_averaged_rssi_trimall(p, readings) ==
    LET kept == IF Len(readings) >= 2
                THEN Trimmed(Sorted(readings), 1)
                ELSE <<>>
    IN  [kept |-> kept, ret |-> IF kept = <<>> THEN None ELSE Mean(kept)]

\* get_averaged_rssi(count) on the readings its loop has collected: the list
\* the mean is taken of and the value returned
get_averaged_rssi(p, readings) ==
    IF readings = <<>>
    THEN [kept |-> <<>>, ret |-> None]
    ELSE LET trim == (Len(readings) * TrimPercent(p)) \div 100
             kept == IF Len(readings) >= 5 /\ trim > 0
                     THEN Trimmed(Sorted(readings), trim)
                     ELSE IF Len(readings) >= 5 THEN Sorted(readings) ELSE readings
         IN  [kept |-> kept, ret |-> IF kept = <<>> THEN None ELSE Mean(kept)]

\* a reader that slices the burst without sorting it
get_stable_rssi_unsorted(readings) ==
    IF readings = <<>>
    THEN [kept |-> <<>>, ret |-> None]
    ELSE LET kept == IF Len(readings) >= 3 THEN Trimmed(readings, 1) ELSE readings
         IN  [kept |-> kept, ret |-> IF kept = <<>> THEN None ELSE Mean(kept)]

\* get_stable_rssi(samples) of test25.py on the readings its loop has collected
get_stable_rssi(readings) ==
    IF readings = <<>>
    THEN [kept |-> <<>>, ret |-> None]
    ELSE LET kept == IF Len(readings) >= 3
                     THEN Trimmed(Sorted(readings), 1)
                     ELSE readings
         IN  [kept |-> kept, ret |-> IF kept = <<>> THEN None ELSE Mean(kept)]

\* a reader is called with one of its counts; any of the reads may fail
InitBurst ==
    /\ prog \in BurstProgs
    /\ pc = "burst"
    /\ exc = "none"
    /\ \E count \in BurstCounts(prog) :
          \E mid \in 0..count, high \in 0..count, low \in 0..count :
             /\ mid + high + low <= count
             /\ self = [samples |-> count]
             /\ loc = [readings |-> Burst(mid, high, low), kept |-> <<>>]
    /\ px = InlineInitPx
    /\ tick = NoTick
    /\ env = InitEnv

\* the reader returns its estimate
BurstReturn ==
    /\ pc = "burst"
    /\ LET r == IF prog = "test25"
                THEN get_stable_rssi(loc.readings)
                ELSE get_averaged_rssi(prog, loc.readings)
       IN  /\ loc' = [loc EXCEPT !.kept = r.kept]
           /\ env' = [env EXCEPT !.used = r.ret]
    /\ pc' = "done"
    /\ UNCHANGED <<prog, exc, self, px, tick>>

SpecBurst == InitBurst /\ [][BurstReturn]_vars

(***************************************************************************)
(* Runs of test25.py and test24.py that start anywhere along the search    *)
(* spiral: spiral_angle walks from -35 degrees to 0 in steps of 0.05 and   *)
(* starts again.                                                           *)
(***************************************************************************)
SpiralSamples == {Deg(-35), -100, -5, 0}

InitSteer ==
    \E a \in SpiralSamples :
       /\ prog \in {"test25", "test24"}
       /\ pc = IF prog = "test25" THEN "calib" ELSE "loop"
       /\ exc = "none"
       /\ self = IF prog = "test25"
                 THEN [InlineInitSelf("test25") EXCEPT !.spiral_angle = a]
                 ELSE [T24InitSelf EXCEPT !.spiral_angle = a]
       /\ px = InlineInitPx
       /\ loc = NoLoc
       /\ tick = NoTick
       /\ env = InitEnv

NextSteer ==
    \/ InlineCalibrate
    \/ InlineTick
    \/ InlineManeuver
    \/ InlineFinally
    \/ T24Tick
    \/ T24Maneuver
    \/ T24Finally

SpecSteer == InitSteer /\ [][NextSteer]_vars

(***************************************************************************)
(* test25.py and wifi_bot2.py entered at the start of the search spiral,   *)
(* one step before its end and at its end.                                 *)
(***************************************************************************)
InitSpiral ==
    \E p \in {"test25", "wifi_bot2"}, a \in SpiralSamples :
       /\ prog = p
       /\ pc = "calib"
       /\ exc = "none"
       /\ self = [InlineInitSelf(p) EXCEPT !.spiral_angle = IF a = -5 THEN -SpiralStep(p) ELSE a]
       /\ px = InlineInitPx
       /\ loc = NoLoc
       /\ tick = NoTick
       /\ env = InitEnv

\* an iteration on bursts below and above APPROACH_THRESHOLD, all of them
\* below TARGET_RSSI
InlineTickSearch ==
    /\ prog \in InlineProgs
    /\ pc = "loop"
    /\ InlineIteration("free", {-600, -480}, DistInputs)

SpecSpiral ==
    /\ InitSpiral
    /\ [][\/ InlineCalibrate
          \/ InlineTickSearch
          \/ InlineManeuver]_vars

(***************************************************************************)
(* Runs in which the Wi-Fi interface may disappear.  The interpreter keeps *)
(* executing run(): every step of the program that is enabled is           *)
(* eventually taken (weak fairness); the loss of the interface is not      *)
(* forced to happen.                                                       *)
(***************************************************************************)
NextWifiLost ==
    \/ MethodCalibrate
    \/ MethodTickTimed
    \/ MethodManeuver
    \/ MethodVictory
    \/ MethodFinally
    \/ InlineCalibrate
    \/ InlineTickTimed
    \/ InlineManeuver
    \/ InlineFinally
    \/ WifiLost

FairWifiLost ==
    /\ WF_vars(MethodCalibrate) /\ WF_vars(MethodTickTimed)
    /\ WF_vars(MethodManeuver) /\ WF_vars(MethodVictory) /\ WF_vars(MethodFinally)
    /\ WF_vars(InlineCalibrate) /\ WF_vars(InlineTickTimed)
    /\ WF_vars(InlineManeuver) /\ WF_vars(InlineFinally)

\* final_version.py and test25.py, timed runs that may lose the interface
SpecWifiLost ==
    /\ InitMethod("final_version") \/ InitInline("test25")
    /\ [][NextWifiLost]_vars
    /\ FairWifiLost

(***************************************************************************)
(* Runs that Ctrl+C may interrupt.                                         *)
(***************************************************************************)
NextInterrupt ==
    \/ MethodCalibrate
    \/ MethodTick
    \/ MethodManeuver
    \/ MethodVictory
    \/ MethodFinally
    \/ MethodInterrupt
    \/ MethodCalibInterrupt
    \/ InlineCalibrate
    \/ InlineTick
    \/ InlineManeuver
    \/ InlineFinally
    \/ InlineInterrupt
    \/ InlineCalibInterrupt

\* final_version.py and test25.py with KeyboardInterrupt
SpecInterrupt ==
    (InitMethod("final_version") \/ InitInline("test25")) /\ [][NextInterrupt]_vars

(***************************************************************************)
(* Claims about final_version.py and wifi_bot3.py.                         *)
(***************************************************************************)
\* C1: a confirmed obstacle never preempts VERIFY or FINISH: on a tick that
\* starts in VERIFY or FINISH the avoidance maneuver is not started.  The
\* maneuver changes self.state only after its last sleep, so while it runs
\* self.state is still the state the tick started in.
C1_NoPreemptVerifyFinish ==
    (prog \in MethodProgs /\ pc \in {"avoid_back", "avoid_fwd"})
        => self.state \notin {"VERIFY", "FINISH"}

\* C2: FINISH is entered only by the handle_verify call that brings
\* verify_counter to VERIFY_TOTAL_CHECKS and only with verify_hits >=
\* VERIFY_REQUIRED_HITS; the false-alarm verdict is issued by that call too,
\* and while VERIFY goes on the counter is below VERIFY_TOTAL_CHECKS.
C2_VerdictOnlyAtTotal ==
    prog \in MethodProgs =>
        /\ self.state = "FINISH" =>
              /\ self.verify_counter = VERIFY_TOTAL_CHECKS(prog)
              /\ self.verify_hits >= VERIFY_REQUIRED_HITS(prog)
        /\ pc = "false_alarm" =>
              /\ self.verify_counter = VERIFY_TOTAL_CHECKS(prog)
              /\ self.verify_hits < VERIFY_REQUIRED_HITS(prog)
        /\ (self.state = "VERIFY" /\ pc = "loop") =>
              self.verify_counter < VERIFY_TOTAL_CHECKS(prog)

\* C2 witness: 30 samples of which exactly 5 are at or above the target end in
\* FINISH on the 30th call of handle_verify (wifi_bot3.py)
C2_Witness ==
    /\ prog = "wifi_bot3"
    /\ self.state = "FINISH"
    /\ self.verify_counter = 30
    /\ self.verify_hits = 5

\* C6: the obstacle check runs on every iteration whose state is not FINISH,
\* also on iterations whose burst returns None.
C6_CheckEveryIteration ==
    (prog \in MethodProgs /\ tick.start \notin {"none", "FINISH"}) => tick.checked

(***************************************************************************)
(* Claims about the debounce and the scenarios.                            *)
(***************************************************************************)
\* the debounce threshold of each program
DebounceThreshold(p) == IF p \in MethodProgs THEN 2 ELSE OBSTACLE_CONFIRM_COUNT(p)

\* C3: on every reading fed to the debounce, an obstacle is confirmed only if
\* the reading is at least the N-th of a run of consecutive close readings (so
\* a single close reading followed by far readings never confirms), and the
\* N-th reading of such a run always confirms (N = debounce threshold).
C3_Debounce ==
    (prog \in {"final_version", "test25"} /\ tick.checked) =>
        /\ tick.confirmed => env.fed_run >= DebounceThreshold(prog)
        /\ env.fed_run = DebounceThreshold(prog) => tick.confirmed

\* C3 witness: the third consecutive close reading confirms in test25.py
C3_Witness ==
    /\ prog = "test25"
    /\ tick.confirmed
    /\ env.fed_run = T25_OBSTACLE_CONFIRM_COUNT

\* C4 as stated: with a valid signal on every tick, AVOID is entered on a tick
\* iff its reading is the 3rd consecutive close reading, and the sequence
\* 40, 40, 15, 15, 15 started in SEARCH or APPROACH with obstacle_counter = 0
\* enters AVOID on its 5th tick and on no earlier one.
C4_AvoidOnThirdReading ==
    (prog \in {"test25", "wifi_bot2"} /\ env.all_valid /\ tick.start # "none") =>
        /\ tick.confirmed <=> env.any_run = 3
        /\ env.scen4 = 5 => tick.confirmed
        /\ env.scen4 \in 1..4 => ~tick.confirmed

\* C4 as amended: the same for the ticks that start in SEARCH or APPROACH;
\* readings of ticks that start in VERIFY or FINISH are not fed to the debounce,
\* they neither count nor enter AVOID.
C4_AvoidOnThirdFedReading ==
    (prog \in {"test25", "wifi_bot2"} /\ env.all_valid /\ tick.start # "none") =>
        /\ tick.confirmed <=> (tick.checked /\ env.dbn_run = 3)
        /\ env.scen4m = 5 => tick.confirmed
        /\ env.scen4m \in 1..4 => ~tick.confirmed

\* C4 witness: the 5th tick of the range scenario enters AVOID
C4_Witness ==
    /\ prog = "test25"
    /\ env.scen4m = 5
    /\ tick.confirmed
    /\ self.state = "AVOID"

\* C5 as stated: on the signal scenario the controller is in SEARCH after the
\* samples 1 to 3, in APPROACH after the samples 4 to 6 and enters VERIFY on
\* the 7th sample.
C5_VerifyOnSeventh ==
    prog \in {"wifi_bot2", "wifi_bot1"} =>
        /\ env.scen5 \in 1..3 => self.state = "SEARCH"
        /\ env.scen5 \in 4..6 => self.state = "APPROACH"
        /\ env.scen5 = 7 => self.state = "VERIFY"

\* C5 as amended: SEARCH after the samples 1 to 3, APPROACH on the 4th sample
\* and VERIFY on the 5th sample, the first that is at or above TARGET_RSSI.
C5_VerifyOnFifth ==
    prog \in {"wifi_bot2", "wifi_bot1"} =>
        /\ env.scen5 \in 1..3 => self.state = "SEARCH"
        /\ env.scen5 = 4 => self.state = "APPROACH"
        /\ env.scen5 = 5 => self.state = "VERIFY"

\* C5 witness: the 5th sample of the scenario has put wifi_bot1.py into VERIFY
C5_Witness ==
    /\ prog = "wifi_bot1"
    /\ env.scen5 = 5
    /\ self.state = "VERIFY"
    /\ tick.start = "APPROACH"

(***************************************************************************)
(* Claims about failed reads and interrupts.                               *)
(***************************************************************************)
\* C7: if from some point on every burst yields None, the controller
\* eventually issues a stop command and leaves the control loop.
C7_FailSafeOnLostSignal ==
    (~env.wifi_ok) ~> (pc = "done" /\ px.motor = "stop")

C10_LoopSurvivesFault ==
    (prog \in {"final_version", "test24"} /\ exc = "Exception") =>
        pc \in MethodLoopPcs \cup InlineLoopPcs

\* the motors are not driving: the last motor command is stop or has speed 0
Halted(x) == x.motor \in {"stop", "none"} \/ x.speed = 0

\* C9: an exception other than KeyboardInterrupt raised inside a control tick
\* results in a stop command before the program exits; stated through its
\* consequence that the program does not exit on the exception with the
\* motors driving.
C9_StopBeforeExit ==
    (prog \in {"main_navigation", "test8"} /\ exc = "Exception" /\ pc = "crashed")
        => Halted(px)

(***************************************************************************)
(* Claims about the signal filter.                                         *)
(***************************************************************************)
\* C11: in test25.py, on every tick whose burst yields no estimate, the
\* signal value the tick decides on equals the current estimate kf.x of the
\* Kalman filter.
C11_FailedBurstUsesEstimate ==
    (prog = "test25" /\ tick.start # "none" /\ ~tick.burst) =>
        env.used = self.kf_x

\* the steering angles the servo accepts: [-MAX_STEER_ANGLE, MAX_STEER_ANGLE]
InSteerRange(a) == -Deg(T25_MAX_STEER_ANGLE) <= a /\ a <= Deg(T25_MAX_STEER_ANGLE)

\* C12: every steering command of test25.py and test24.py has an angle within
\* [-35, 35] degrees: the last command of each step and the command of the
\* vision block that a later command of the same iteration replaces.
C12_SteerWithinRange ==
    prog \in {"test25", "test24"} =>
        /\ InSteerRange(px.dir)
        /\ env.vsteer # None => InSteerRange(env.vsteer)

\* C12 witness: the vision bias asks for more than 35 degrees and the command
\* is the limit
C12_Witness ==
    /\ prog = "test24"
    /\ env.vsteer = -Deg(T24_MAX_STEER_ANGLE)
    /\ px.motor = "forward"

\* C13: in test24.py (the loop of test12.py with the vision block added) the
\* controller does not enter FINISH on the iteration in which the filtered
\* signal reaches TARGET_RSSI for the first time.
C13_FinishOnlyAfterConfirmation ==
    [][(prog = "test24" /\ self.state # "FINISH" /\ self'.state = "FINISH")
          => env.reached]_vars

\* C14: with P0 = 1.0, Q = 0.05 and R = 2.0 no step of RSSIKalmanFilter
\* increases the variance P, P stays above 0, and the gain K of an update is
\* strictly between 0 and 1.
C14_VarianceAndGain ==
    [][/\ self'.kf_P <= self.kf_P
       /\ self'.kf_P > 0
       /\ 0 < KalmanGain(self.kf_P)
       /\ KalmanGain(self.kf_P) < 10000]_vars

\* C14 witness: a filter that has taken MaxKalmanCalls measurements and whose
\* variance has come down from P0 = 1.0 to less than 0.31 (its limit is 0.2922)
C14_Witness ==
    /\ prog = "RSSIKalmanFilter"
    /\ env.filter_updates = MaxKalmanCalls
    /\ self.kf_P < 3100
    /\ self.kf_P > 0

\* C15: in test25.py filter(None) returns the estimate x and leaves x and P
\* as they were; x and P change only in a call filter(z) with z not None, and
\* x in the one seeding of the calibration.
C15_FilterChangesOnlyOnMeasurement ==
    [][/\ (prog = "RSSIKalmanFilter" /\ ~tick'.burst) =>
              /\ env'.used = self.kf_x
              /\ self' = self
       /\ (self'.kf_x # self.kf_x \/ self'.kf_P # self.kf_P) =>
              \/ pc \in {"loop", "filter"} /\ tick'.burst
              \/ pc = "calib" /\ self'.kf_P = self.kf_P]_vars

\* C15 witness: filter(None) has just returned the estimate of a filter that
\* measurements have moved
C15_Witness ==
    /\ prog = "RSSIKalmanFilter"
    /\ tick.start = "filter"
    /\ ~tick.burst
    /\ env.filter_updates >= 2
    /\ env.used = self.kf_x
    /\ self.kf_x # T25_INITIAL_VALUE
    /\ self.kf_P < KF_P0

\* the smallest and the largest reading of a burst
MinOf(q) == CHOOSE v \in {q[i] : i \in DOMAIN q} : \A i \in DOMAIN q : v <= q[i]
MaxOf(q) == CHOOSE v \in {q[i] : i \in DOMAIN q} : \A i \in DOMAIN q : v >= q[i]

\* C16: in final_version.py (trim fraction 0.1, BURST_SAMPLES = 5) and
\* wifi_bot2.py (trim fraction 0.2) a burst with at least 5 valid readings
\* loses the same non-zero number of its lowest and of its highest readings
\* before the mean is taken.
C16_TrimsBothEnds ==
    (pc = "done" /\ prog \in {"final_version", "wifi_bot2"}
                 /\ Len(loc.readings) >= 5) =>
        \E a \in 1..Len(loc.readings) :
           /\ 2 * a < Len(loc.readings)
           /\ loc.kept = Trimmed(Sorted(loc.readings), a)
           /\ env.used = Mean(loc.kept)

\* C17: get_averaged_rssi returns None on a burst without a valid reading,
\* the mean of all the readings on a burst with 1 to 4 of them, and an
\* estimate on every burst with at least one valid reading.
C17_ShortBursts ==
    (pc = "done" /\ prog # "test25") =>
        /\ Len(loc.readings) = 0 => env.used = None
        /\ Len(loc.readings) \in 1..4 =>
              /\ loc.kept = loc.readings
              /\ env.used = Mean(loc.readings)
        /\ Len(loc.readings) >= 1 => env.used # None /\ loc.kept # <<>>

\* C17 witness: a burst of wifi_bot1.py with four valid readings, not all
\* alike, has returned their mean
C17_Witness ==
    /\ pc = "done"
    /\ prog = "wifi_bot1"
    /\ Len(loc.readings) = 4
    /\ MinOf(loc.readings) < MaxOf(loc.readings)
    /\ env.used = Mean(loc.readings)

C19_NonReadingKeepsCounter ==
    [][(prog \in {"final_version", "test25"} /\ pc = "loop" /\ tick'.checked
           /\ env'.range \in {None, 0})
          => self'.obstacle_counter = self.obstacle_counter]_vars

\* C20: in test25.py and wifi_bot2.py an iteration that confirms the obstacle
\* in SEARCH or APPROACH runs the avoidance maneuver before it ends, and ends
\* with state = SEARCH and obstacle_counter = 0 whatever its signal value;
\* no iteration ends in the state AVOID.
C20_AvoidWithinTick ==
    prog \in {"test25", "wifi_bot2"} =>
        /\ pc = "loop" => self.state # "AVOID"
        /\ (tick.confirmed /\ tick.start \in {"SEARCH", "APPROACH"}) =>
              /\ pc \in {"avoid_scan", "avoid_back", "avoid_fwd", "loop"}
              /\ pc # "loop" => self.state = "AVOID"
              /\ pc = "loop" =>
                    /\ self.state = "SEARCH"
                    /\ self.obstacle_counter = 0
                    /\ px.motor = "forward"
                    /\ px.dir \in {Deg(-35), Deg(35)}

\* C20 witness: an iteration of wifi_bot2.py that started in APPROACH with a
\* signal above TARGET_RSSI has confirmed the obstacle and ended in SEARCH
C20_Witness ==
    /\ prog = "wifi_bot2"
    /\ pc = "loop"
    /\ tick.confirmed
    /\ tick.start = "APPROACH"
    /\ self.state = "SEARCH"
    /\ self.obstacle_counter = 0
    /\ self.prev_avg_rssi >= WB2_TARGET_RSSI

\* C21: FINISH is terminal in final_version.py and test25.py: a step taken in
\* FINISH leaves the state and the obstacle counter alone, runs no obstacle
\* check and no maneuver, and the only motor command it issues is stop.
C21_FinishIsTerminal ==
    [][(prog \in {"final_version", "test25"} /\ self.state = "FINISH") =>
          /\ self'.state = "FINISH"
          /\ self'.obstacle_counter = self.obstacle_counter
          /\ pc' \notin {"avoid_scan", "avoid_back", "avoid_fwd", "reorient",
                         "false_alarm"}
          /\ pc = "loop" => ~tick'.checked /\ ~tick'.confirmed
          /\ (px'.motor # px.motor \/ px'.speed # px.speed) =>
                px'.motor = "stop" /\ px'.speed = 0]_vars

\* C21 witness: run() of test25.py has ended through its FINISH branch
C21_Witness ==
    /\ prog = "test25"
    /\ self.state = "FINISH"
    /\ tick.start = "FINISH"
    /\ pc = "done"
    /\ px.motor = "stop"

\* C22: test25.py and wifi_bot2.py do not move while verifying: VERIFY is
\* entered with the motors stopped, an iteration that starts and ends in
\* VERIFY issues no command and leaves the obstacle counter alone, and the
\* only command issued in VERIFY is the reverse of a failed verification.
C22_StillWhileVerifying ==
    [][(prog \in {"test25", "wifi_bot2"}) =>
          /\ (self.state # "VERIFY" /\ self'.state = "VERIFY") =>
                px'.motor = "stop" /\ px'.speed = 0
          /\ (self.state = "VERIFY" /\ pc = "loop") =>
                /\ px.motor = "stop"
                /\ self'.obstacle_counter = self.obstacle_counter
                /\ (self'.state = "VERIFY" /\ pc' = "loop") => px' = px
                /\ px' # px => pc' = "false_alarm" /\ px' = Backward(px, SPEED_APPROACH(prog))]_vars

\* C22 witness: wifi_bot2.py has taken a sample in VERIFY and stands still
C22_Witness ==
    /\ prog = "wifi_bot2"
    /\ self.state = "VERIFY"
    /\ pc = "loop"
    /\ self.verify_counter >= 2
    /\ px.motor = "stop"

\* C23: in final_version.py and wifi_bot3.py handle_approach starts the
\* re-orientation maneuver on an iteration if and only if it is the third
\* consecutive APPROACH iteration with delta < 0; the maneuver ends with
\* consecutive_drops = 0 in APPROACH, and consecutive_drops is in 0..2 at the
\* end of every iteration.
C23_ReorientOnThirdDrop ==
    [][(prog \in MethodProgs) =>
          /\ (pc = "loop") => (pc' = "reorient" <=> env'.deg_run = 3)
          /\ (pc = "loop" /\ pc' = "reorient") => tick'.start = "APPROACH"
          /\ (pc = "reorient") =>
                (self'.consecutive_drops = 0 /\ self'.state = "APPROACH" /\ pc' = "loop")
          /\ (pc' = "loop") => (self'.consecutive_drops \in {0, 1, 2})]_vars

\* C23 witness: wifi_bot3.py reverses with the wheels turned on its third
\* degrading iteration
C23_Witness ==
    /\ prog = "wifi_bot3"
    /\ pc = "reorient"
    /\ env.deg_run = 3
    /\ self.state = "APPROACH"
    /\ px.motor = "backward"
    /\ px.dir = Deg(30)

\* C24: in wifi_bot1.py and wifi_bot2.py the re-orientation maneuver starts
\* only on the third of three consecutive APPROACH iterations with
\* rssi_delta < -1.5; an iteration classified as noise or improving restarts
\* the count.
C24_ReorientAfterThreeDrops ==
    [][(prog \in {"wifi_bot1", "wifi_bot2"} /\ pc = "loop" /\ pc' = "reorient")
          => env'.deg_run = 3]_vars

\* C25: in wifi_bot2.py an iteration that starts in APPROACH with a valid
\* signal at or above TARGET_RSSI and no confirmed obstacle ends in VERIFY
\* with verify_counter = 0 and verify_hits = 0, and an iteration that starts
\* in SEARCH with a signal equal to APPROACH_THRESHOLD stays in SEARCH.
C25_ThresholdTransitions ==
    [][(prog = "wifi_bot2" /\ pc = "loop" /\ tick'.burst /\ ~tick'.confirmed) =>
          /\ (tick'.start = "APPROACH" /\ env'.used >= WB2_TARGET_RSSI) =>
                (/\ self'.state = "VERIFY"
                 /\ self'.verify_counter = 0
                 /\ self'.verify_hits = 0
                 /\ pc' = "loop")
          /\ (tick'.start = "SEARCH" /\ env'.used = WB2_APPROACH_THRESHOLD) =>
                (self'.state = "SEARCH")]_vars

\* the last step was an iteration of fast_bot.py that took an RSSI reading
\* and computed an average above -95 dBm
FastBotTrendTick ==
    /\ prog = "fast_bot"
    /\ pc = "loop"
    /\ tick'.kind \in {"arrived", "lost", "improving", "degrading", "noise"}
    /\ tick'.curr > Avg("fast_bot", -950)

\* what the three classes command
SteeredStraight ==
    /\ px' = Forward(Steer(px, 0), FB_SPEED_FORWARD)
    /\ self'.turn_direction = self.turn_direction
    /\ self'.zigzag_dir = self.zigzag_dir
BigTurn ==
    /\ self'.turn_direction = -self.turn_direction
    /\ self'.zigzag_dir = self.zigzag_dir
    /\ px' = Forward(Steer(px, Deg(FB_BIG_TURN_ANGLE * self'.turn_direction)), FB_SPEED_SLOW)
SmallZigzag ==
    /\ self'.zigzag_dir = -self.zigzag_dir
    /\ self'.turn_direction = self.turn_direction
    /\ px' = Forward(Steer(px, Deg(FB_SMALL_ZIGZAG_ANGLE * self'.zigzag_dir)), FB_SPEED_FORWARD)

TrendClasses ==
    /\ SteeredStraight <=> (tick'.diff > Avg("fast_bot", FB_DEADBAND_DB))
    /\ BigTurn <=> (tick'.diff < -Avg("fast_bot", FB_DEADBAND_DB))
    /\ SmallZigzag <=> (Abs(tick'.diff) <= Avg("fast_bot", FB_DEADBAND_DB))

\* C26, as stated: on every iteration of fast_bot.py with curr_rssi > -95 the
\* bot steers straight at SPEED_FORWARD iff diff > DEADBAND_DB, flips
\* turn_direction and makes the big turn at SPEED_SLOW iff diff < -DEADBAND_DB
\* and makes the small zigzag otherwise; outside the avoidance maneuver
\* turn_direction is flipped on degrading iterations only.
C26_EveryUpdateClassified ==
    [][/\ FastBotTrendTick => TrendClasses
       /\ (prog = "fast_bot" /\ pc = "loop" /\ self'.turn_direction # self.turn_direction)
             => (FastBotTrendTick /\ tick'.diff < -Avg("fast_bot", FB_DEADBAND_DB))]_vars

\* C26, amended: the same on every such iteration that does not declare the
\* arrival (good_rssi_count stays below STOP_HOLD_COUNT); the iteration that
\* declares it stops the motors and commands none of the three classes.
C26_TrendClasses ==
    [][/\ (FastBotTrendTick /\ self'.good_rssi_count < FB_STOP_HOLD_COUNT) => TrendClasses
       /\ (FastBotTrendTick /\ self'.good_rssi_count >= FB_STOP_HOLD_COUNT)
             => (px' = Stop(px) /\ pc' = "finally" /\ ~SteeredStraight /\ ~BigTurn /\ ~SmallZigzag)
       /\ (prog = "fast_bot" /\ pc = "loop" /\ self'.turn_direction # self.turn_direction)
             => (FastBotTrendTick /\ tick'.diff < -Avg("fast_bot", FB_DEADBAND_DB))]_vars

C26_Witness ==
    /\ prog = "fast_bot"
    /\ pc = "loop"
    /\ tick.kind = "degrading"
    /\ tick.diff < -Avg("fast_bot", FB_DEADBAND_DB)
    /\ tick.curr > Avg("fast_bot", -950)
    /\ self.turn_direction = -1
    /\ px.dir = Deg(-FB_BIG_TURN_ANGLE)
    /\ px.speed = FB_SPEED_SLOW

\* C27: in test25.py and wifi_bot2.py spiral_angle changes only on a SEARCH
\* iteration that commands the spiral: the iteration steers to int(spiral_angle),
\* which is in [-35, 0], and then adds one step to a negative spiral_angle and
\* sets a spiral_angle that is no longer negative back to -35; every SEARCH
\* iteration that stays in SEARCH with a signal does so; and in every state
\* -35 <= spiral_angle < one step above 0.
C27_SearchSpiral ==
    [][(prog \in {"test25", "wifi_bot2"}) =>
          /\ (self'.spiral_angle # self.spiral_angle \/
                (pc = "loop" /\ pc' = "loop" /\ tick'.start = "SEARCH"
                   /\ self'.state = "SEARCH" /\ (tick'.burst \/ prog = "test25"))) =>
                (/\ pc = "loop"
                 /\ tick'.start = "SEARCH"
                 /\ self'.state = "SEARCH"
                 /\ self'.spiral_angle = (IF self.spiral_angle < 0
                                          THEN self.spiral_angle + SpiralStep(prog)
                                          ELSE Deg(-35))
                 /\ px' = Steer(Forward(px, SPEED_SEARCH(prog)), TruncDeg(self.spiral_angle))
                 /\ px'.dir >= Deg(-35)
                 /\ px'.dir <= 0)
          /\ self'.spiral_angle >= Deg(-35)
          /\ self'.spiral_angle < SpiralStep(prog)]_vars

C27_Witness ==
    /\ prog = "test25"
    /\ pc = "loop"
    /\ tick.start = "SEARCH"
    /\ env.spiral_steps = 1
    /\ self.spiral_angle = Deg(-35)
    /\ px.dir = 0
    /\ px.motor = "forward"

\* C28: in main_navigation.py every iteration with 0 < distance < SAFE_DISTANCE
\* commands the emergency stop and then the back-off (wheels to -30, backward
\* at 50, stop), whatever the vision flag and the filtered RSSI are; the vision
\* avoidance (steer 30, forward at 30) is commanded only on, and on all,
\* iterations with the flag set whose distance is not in that range.
C28_RangefinderFirst ==
    [][(prog = "main_navigation") =>
          /\ (pc = "loop" /\ pc' # "crashed") =>
                (/\ (tick'.distance > 0 /\ tick'.distance < MN_SAFE_DISTANCE)
                       <=> (pc' = "estop")
                 /\ (pc' = "estop") => (px' = Forward(px, 0))
                 /\ (px'.dir = Deg(30) /\ px'.speed = 30 /\ px'.motor = "forward")
                       <=> (tick'.visual_obstacle /\ pc' = "loop"))
          /\ (pc = "estop") => (px' = Backward(Steer(px, Deg(-30)), 50) /\ pc' = "backoff")
          /\ (pc = "backoff") => (px' = Forward(px, 0) /\ pc' = "loop")]_vars

C28_Witness ==
    /\ prog = "main_navigation"
    /\ pc = "backoff"
    /\ tick.distance = 15
    /\ tick.visual_obstacle
    /\ tick.valid_rssi = None
    /\ px.motor = "backward"
    /\ px.dir = Deg(-30)

\* C29: in fast_bot.py and find_me_hotspot.py the RSSI-based arrival stop is
\* declared only when the smoothed RSSI was at or above the stop threshold on
\* each of the last STOP_HOLD_COUNT (TARGET_HOLD_COUNT) RSSI updates.
C29_ArrivalAfterHold ==
    (prog \in HotProgs /\ tick.kind = "arrived") => tick.run >= HOLD_COUNT(prog)

\* C30: in wifi_bot1.py every iteration with a valid signal that starts in a
\* state other than VERIFY and FINISH feeds its range reading to the obstacle
\* counter, and does so before it commands the re-orientation maneuver: no
\* such iteration goes to the maneuver with its reading not counted.
C30_DebounceBeforeApproach ==
    [][(prog = "wifi_bot1" /\ pc = "loop" /\ tick'.burst
          /\ tick'.start \notin {"VERIFY", "FINISH"}) =>
          /\ tick'.checked
          /\ (self'.state # "AVOID") =>
                (self'.obstacle_counter =
                    (IF IsClose(prog, env'.range) THEN self.obstacle_counter + 1 ELSE 0))]_vars

\* C31: RobustRSSIFilter.update(v) appends v to the window, which keeps the
\* newest window_size samples; it returns the mean of the newest triplet of
\* consecutive samples whose two adjacent differences are within the
\* threshold, and stores it as last_valid_rssi; if the window holds no such
\* triplet it returns last_valid_rssi unchanged, which is None iff no call has
\* found a stable triplet.
C31_NewestStableTriplet ==
    [][(prog = "rssi_filter") =>
          LET data == self'.window
              S == StableIndices(data, self.threshold)
          IN  /\ Len(data) <= self.maxlen
              /\ data[Len(data)] = tick'.val
              /\ \A k \in 1..(Len(data) - 1) :
                    data[k] = self.window[k + Len(self.window) + 1 - Len(data)]
              /\ Len(data) >= Len(self.window)
              /\ (S # {}) =>
                    (\E i \in S :
                        /\ \A k \in S : k <= i
                        /\ tick'.ret = RoundDiv(data[i] + data[i - 1] + data[i - 2], 3))
              /\ (S = {}) => (tick'.ret = self.last_valid_rssi)
              /\ self'.last_valid_rssi = tick'.ret
              /\ (tick'.ret = None) <=> ~tick'.ever]_vars

C31_Witness ==
    /\ prog = "rssi_filter"
    /\ Len(self.window) = self.maxlen
    /\ StableIndices(self.window, self.threshold) = {}
    /\ tick.ret # None
    /\ tick.ret = self.last_valid_rssi

\* C32: in final_version.py and wifi_bot3.py the obstacle counter is 0 when an
\* avoidance maneuver ends in SEARCH, and the iteration that follows a
\* maneuver does not start another one, whatever its range reading is.
C32_FreshRunAfterAvoidance ==
    [][(prog \in MethodProgs) =>
          /\ (pc = "avoid_fwd" /\ pc' = "loop") => (self'.obstacle_counter = 0)
          /\ (pc = "loop" /\ tick.confirmed) => (pc' # "avoid_back")]_vars

\* C33: in wifi_bot2.py consecutive_drops is 0 whenever the controller enters
\* APPROACH, from SEARCH or after a failed verification.
C33_DropsZeroOnApproach ==
    [][(prog = "wifi_bot2" /\ self.state # "APPROACH" /\ self'.state = "APPROACH")
          => (self'.consecutive_drops = 0)]_vars

\* C34: in wifi_bot2.py and wifi_bot3.py 0 <= verify_hits <= verify_counter <=
\* VERIFY_TOTAL_CHECKS in every state; both counters are 0 when VERIFY is
\* entered; every iteration that starts in VERIFY with a valid signal adds 1
\* to verify_counter, and adds 1 to verify_hits iff the signal is >=
\* TARGET_RSSI, leaving it unchanged otherwise.
C34_VerifyCounters ==
    [][(prog \in {"wifi_bot2", "wifi_bot3"}) =>
          /\ 0 <= self'.verify_hits
          /\ self'.verify_hits <= self'.verify_counter
          /\ self'.verify_counter <= VERIFY_TOTAL_CHECKS(prog)
          /\ (self.state # "VERIFY" /\ self'.state = "VERIFY") =>
                (self'.verify_counter = 0 /\ self'.verify_hits = 0)
          /\ (pc = "loop" /\ self.state = "VERIFY" /\ tick'.burst) =>
                (/\ self'.verify_counter = self.verify_counter + 1
                 /\ self'.verify_hits = self.verify_hits
                       + (IF env'.used >= TARGET_RSSI(prog) THEN 1 ELSE 0))]_vars

\* C37: is_obstacle_detected() returns the flag stored by the most recently
\* completed _analyze_obstacles call, and False before the first; the two
\* with blocks exclude each other; and the vision thread holds the lock only
\* inside the with block of _analyze_obstacles, never while it reads the
\* camera, sleeps or runs the inference.
C37_SnapshotUnderLock ==
    [][(prog = "vision_module") =>
          /\ (pc = "c_read" /\ pc' = "loop") => (loc'.visual_obstacle = tick.stored)
          /\ ~(pc' = "c_read" /\ loc'.vpc \in VisionLockedPcs)
          /\ (self'.lock = "vision") <=> (loc'.vpc \in VisionLockedPcs)
          /\ (self'.lock = "control") <=> (pc' = "c_read")]_vars

\* the control loop has read True while the thread analyses the next frame
C37_Witness ==
    /\ prog = "vision_module"
    /\ pc = "loop"
    /\ loc.visual_obstacle
    /\ tick.stored
    /\ loc.vpc = "v_infer"

\* C38: the vision thread begins no cap.read() and analyses no frame once
\* stop() has released the capture device.
C38_NoReadAfterRelease ==
    [][(prog = "vision_module") =>
          /\ (loc.vpc = "v_read" /\ loc'.vpc = "v_reading") => (self.cap = "open")
          /\ (loc.vpc = "v_infer" /\ loc'.vpc = "v_acquire") => (self.cap = "open")]_vars

====
